---- MODULE Spec2Model ----
(***************************************************************************)
(* Threatfeed news-api: the article store, the scorer and classifier, the  *)
(* concurrent ingestion pipeline (fetch workers -> articleChan -> writer), *)
(* CSV restore and the threat aggregation query, as in news-api/main.go.   *)
(*                                                                         *)
(* Text is a TLA+ string; time is a record [sec, nsec, off]: the instant   *)
(* in seconds, its sub-second part in nanoseconds and the zone offset in   *)
(* seconds east of UTC that the Go time.Time value carries.                *)
(***************************************************************************)
EXTENDS Integers, Sequences, FiniteSets, TLC

(***************************************************************************)
(* Bounds of the model.                                                    *)
(***************************************************************************)
\* pipeline runs StartCachingJob performs (the startup run and ticker runs)
MaxRuns == 2
\* how many of the configured sources the job is started with
NumSources == 2
\* capacity of articleChan (make(chan, 100) in the source), scaled down
ChanCap == 1
\* calls of LoadArticlesFromCSV
MaxLoads == 1
\* calls of ClearAllArticlesForTest
MaxClears == 1
\* clock advances
MaxTicks == 1
\* the articles InsertArticle stores before the queries of SpecQuery
MaxStored == 3

(***************************************************************************)
(* Strings: strings.ToLower, strings.Contains.                             *)
(***************************************************************************)
UpperChars == "ABCDEFGHIJKLMNOPQRSTUVWXYZ"
LowerChars == "abcdefghijklmnopqrstuvwxyz"

CharAt(s, i) == SubSeq(s, i, i)

\* the lower-case letter of each upper-case letter
LowerOf ==
    [c \in { CharAt(UpperChars, i) : i \in 1..Len(UpperChars) } |->
        CharAt(LowerChars, CHOOSE i \in 1..Len(UpperChars) : CharAt(UpperChars, i) = c)]

LowerChar(c) == IF c \in DOMAIN LowerOf THEN LowerOf[c] ELSE c

RECURSIVE LowerFrom(_, _)
LowerFrom(s, i) ==
    IF i > Len(s) THEN "" ELSE LowerChar(CharAt(s, i)) \o LowerFrom(s, i + 1)

ToLower(s) == LowerFrom(s, 1)

Contains(s, substr) ==
    \E i \in 1..(Len(s) - Len(substr) + 1) : SubSeq(s, i, i + Len(substr) - 1) = substr

(***************************************************************************)
(* bluemonday.StripTagsPolicy().Sanitize: every <...> element is removed,  *)
(* the text between elements is kept.                                      *)
(***************************************************************************)
RECURSIVE StripFrom(_, _, _)
StripFrom(s, i, inTag) ==
    IF i > Len(s) THEN ""
    ELSE IF inTag
         THEN StripFrom(s, i + 1, CharAt(s, i) # ">")
         ELSE IF CharAt(s, i) = "<"
              THEN StripFrom(s, i + 1, TRUE)
              ELSE CharAt(s, i) \o StripFrom(s, i + 1, FALSE)

Sanitize(s) == StripFrom(s, 1, FALSE)

(***************************************************************************)
(* strconv.Atoi and time.Parse(time.RFC3339, _).  Both return [ok, ...].   *)
(***************************************************************************)
DigitChars == "0123456789"

\* the value of each decimal digit
DigitOf ==
    [c \in { CharAt(DigitChars, i) : i \in 1..Len(DigitChars) } |->
        (CHOOSE i \in 1..Len(DigitChars) : CharAt(DigitChars, i) = c) - 1]

IsDigit(c) == c \in DOMAIN DigitOf

DigitVal(c) == DigitOf[c]

AllDigits(s) == Len(s) > 0 /\ \A i \in 1..Len(s) : IsDigit(CharAt(s, i))

RECURSIVE DecimalFrom(_, _, _)
DecimalFrom(s, i, acc) ==
    IF i > Len(s) THEN acc ELSE DecimalFrom(s, i + 1, acc * 10 + DigitVal(CharAt(s, i)))

Decimal(s) == DecimalFrom(s, 1, 0)

\* strconv.Atoi: an optional sign and at least one decimal digit
Atoi(s) ==
    LET signed == Len(s) > 0 /\ CharAt(s, 1) \in { "+", "-" }
        digits == IF signed THEN SubSeq(s, 2, Len(s)) ELSE s
    IN  IF AllDigits(digits)
        THEN [ok |-> TRUE,
              val |-> IF signed /\ CharAt(s, 1) = "-" THEN 0 - Decimal(digits) ELSE Decimal(digits)]
        ELSE [ok |-> FALSE, val |-> 0]

IsLeap(y) == (y % 4 = 0 /\ y % 100 # 0) \/ y % 400 = 0

DaysIn(y, m) ==
    IF m = 2 THEN (IF IsLeap(y) THEN 29 ELSE 28)
    ELSE IF m \in { 4, 6, 9, 11 } THEN 30 ELSE 31

\* days from 1970-01-01 to the civil date y-m-d
DaysFromCivil(y, m, d) ==
    LET yy == IF m <= 2 THEN y - 1 ELSE y
        era == yy \div 400
        yoe == yy - era * 400
        mp == IF m > 2 THEN m - 3 ELSE m + 9
        doy == (153 * mp + 2) \div 5 + d - 1
        doe == yoe * 365 + yoe \div 4 - yoe \div 100 + doy
    IN  era * 146097 + doe - 719468

\* the nanoseconds a fraction's digits stand for (digits after the ".")
RECURSIVE FractionNanos(_, _, _)
FractionNanos(s, i, scale) ==
    IF i > Len(s) \/ scale = 0 THEN 0
    ELSE DigitVal(CharAt(s, i)) * scale + FractionNanos(s, i + 1, scale \div 10)

\* the zone of an RFC3339 text: "Z" or +hh:mm or -hh:mm
ParseZone(z) ==
    IF z = "Z" THEN [ok |-> TRUE, off |-> 0]
    ELSE IF /\ Len(z) = 6
            /\ CharAt(z, 1) \in { "+", "-" }
            /\ AllDigits(SubSeq(z, 2, 3))
            /\ CharAt(z, 4) = ":"
            /\ AllDigits(SubSeq(z, 5, 6))
            /\ Decimal(SubSeq(z, 2, 3)) <= 24
            /\ Decimal(SubSeq(z, 5, 6)) < 60
         THEN LET secs == Decimal(SubSeq(z, 2, 3)) * 3600 + Decimal(SubSeq(z, 5, 6)) * 60
              IN  [ok |-> TRUE, off |-> IF CharAt(z, 1) = "-" THEN 0 - secs ELSE secs]
         ELSE [ok |-> FALSE, off |-> 0]

\* time.Parse("2006-01-02T15:04:05Z07:00", s)
ParseRFC3339(s) ==
    LET bad == [ok |-> FALSE, time |-> [sec |-> 0, nsec |-> 0, off |-> 0]]
    IN  IF ~ ( /\ Len(s) >= 20
               /\ AllDigits(SubSeq(s, 1, 4)) /\ CharAt(s, 5) = "-"
               /\ AllDigits(SubSeq(s, 6, 7)) /\ CharAt(s, 8) = "-"
               /\ AllDigits(SubSeq(s, 9, 10)) /\ CharAt(s, 11) = "T"
               /\ AllDigits(SubSeq(s, 12, 13)) /\ CharAt(s, 14) = ":"
               /\ AllDigits(SubSeq(s, 15, 16)) /\ CharAt(s, 17) = ":"
               /\ AllDigits(SubSeq(s, 18, 19)) )
        THEN bad
        ELSE
        LET y == Decimal(SubSeq(s, 1, 4))
            m == Decimal(SubSeq(s, 6, 7))
            d == Decimal(SubSeq(s, 9, 10))
            h == Decimal(SubSeq(s, 12, 13))
            mi == Decimal(SubSeq(s, 15, 16))
            sc == Decimal(SubSeq(s, 18, 19))
            hasFrac == CharAt(s, 20) = "."
            fracEnd == IF hasFrac
                       THEN CHOOSE j \in 20..Len(s) :
                               /\ \A k \in 21..j : IsDigit(CharAt(s, k))
                               /\ (j = Len(s) \/ ~IsDigit(CharAt(s, j + 1)))
                       ELSE 19
            nsec == IF hasFrac THEN FractionNanos(SubSeq(s, 21, fracEnd), 1, 100000000) ELSE 0
            zone == ParseZone(SubSeq(s, fracEnd + 1, Len(s)))
        IN  IF /\ m \in 1..12 /\ d >= 1 /\ d <= DaysIn(y, m)
               /\ h < 24 /\ mi < 60 /\ sc < 60
               /\ (hasFrac => fracEnd > 20)
               /\ zone.ok
            THEN [ok |-> TRUE,
                  time |-> [sec |-> DaysFromCivil(y, m, d) * 86400 + h * 3600 + mi * 60 + sc - zone.off,
                            nsec |-> nsec,
                            off |-> zone.off]]
            ELSE bad

\* strconv.Itoa for n >= 0: the decimal digits of n
RECURSIVE DigitsOf(_)
DigitsOf(n) ==
    IF n < 10 THEN SubSeq(DigitChars, n + 1, n + 1)
    ELSE DigitsOf(n \div 10) \o SubSeq(DigitChars, (n % 10) + 1, (n % 10) + 1)

Itoa(n) == IF n < 0 THEN "-" \o DigitsOf(0 - n) ELSE DigitsOf(n)

\* n in at least width digits, zeros in front
RECURSIVE Pad(_, _)
Pad(n, width) ==
    IF width <= 1 THEN DigitsOf(n)
    ELSE IF Len(DigitsOf(n)) >= width THEN DigitsOf(n)
    ELSE "0" \o Pad(n, width - 1)

\* the civil date of the day that is days after 1970-01-01
CivilFromDays(days) ==
    LET z == days + 719468
        era == z \div 146097
        doe == z - era * 146097
        yoe == (doe - doe \div 1460 + doe \div 36524 - doe \div 146096) \div 365
        doy == doe - (365 * yoe + yoe \div 4 - yoe \div 100)
        mp == (5 * doy + 2) \div 153
        d == doy - (153 * mp + 2) \div 5 + 1
        m == IF mp < 10 THEN mp + 3 ELSE mp - 9
    IN  [y |-> yoe + era * 400 + (IF m <= 2 THEN 1 ELSE 0), m |-> m, d |-> d]

\* t.Format("2006-01-02T15:04:05Z07:00"): the wall clock of t in its zone
\* to the second, then "Z" or the zone offset
FormatRFC3339(t) ==
    LET wall == t.sec + t.off
        date == CivilFromDays(wall \div 86400)
        secs == wall % 86400
        zone == IF t.off = 0 THEN "Z"
                ELSE (IF t.off < 0 THEN "-" ELSE "+")
                        \o Pad((IF t.off < 0 THEN 0 - t.off ELSE t.off) \div 3600, 2) \o ":"
                        \o Pad(((IF t.off < 0 THEN 0 - t.off ELSE t.off) % 3600) \div 60, 2)
    IN  Pad(date.y, 4) \o "-" \o Pad(date.m, 2) \o "-" \o Pad(date.d, 2) \o "T"
            \o Pad(secs \div 3600, 2) \o ":" \o Pad((secs % 3600) \div 60, 2) \o ":"
            \o Pad(secs % 60, 2) \o zone

(***************************************************************************)
(* The scorer.                                                             *)
(***************************************************************************)
CybersecurityKeywords ==
    { <<"zero-day", 5>>, <<"exploit in the wild", 5>>, <<"active attack", 5>>,
      <<"critical vulnerability", 5>>, <<"alert", 5>>, <<"warning", 5>>,
      <<"patch now", 5>>, <<"ransomware attack", 5>>, <<"breach confirmed", 5>>,
      <<"vulnerability", 3>>, <<"exploit", 3>>, <<"breach", 3>>, <<"attack", 3>>,
      <<"malware", 3>>, <<"ransomware", 3>>, <<"phishing", 3>>, <<"threat", 3>>,
      <<"advisory", 3>>,
      <<"security", 1>>, <<"cybersecurity", 1>>, <<"data", 1>>, <<"privacy", 1>>,
      <<"risk", 1>>, <<"compliance", 1>>, <<"encryption", 1>>, <<"patch", 1>> }

TechKeywords ==
    { <<"ai", 5>>, <<"artificial intelligence", 5>>, <<"quantum computing", 5>>,
      <<"breakthrough", 5>>, <<"major update", 5>>, <<"new chip", 5>>,
      <<"innovation", 5>>, <<"future of tech", 5>>,
      <<"startup", 3>>, <<"funding", 3>>, <<"acquisition", 3>>, <<"cloud", 3>>,
      <<"5g", 3>>, <<"machine learning", 3>>, <<"data science", 3>>, <<"web3", 3>>,
      <<"metaverse", 3>>, <<"robotics", 3>>,
      <<"review", 1>>, <<"gadget", 1>>, <<"app", 1>>, <<"software", 1>>,
      <<"hardware", 1>>, <<"update", 1>>, <<"guide", 1>>, <<"tips", 1>> }

DefaultKeywords == { <<"news", 1>>, <<"update", 1>>, <<"report", 1>> }

\* the switch with the Cybersecurity table as its default
KeywordsForCybersecurityByDefault(category) ==
    CASE category = "Tech" -> TechKeywords
      [] OTHER -> CybersecurityKeywords

KeywordsFor(category) ==
    CASE category = "Cybersecurity" -> CybersecurityKeywords
      [] category = "Tech" -> TechKeywords
      [] OTHER -> DefaultKeywords

\* the loop with "rank = score" for "rank += score": the keyword visited
\* last decides
SumScoresLastWins(kws) ==
    IF kws = {} THEN 0 ELSE (CHOOSE k \in kws : \A other \in kws : k[2] <= other[2])[2]

RECURSIVE SumScores(_)
SumScores(kws) ==
    IF kws = {} THEN 0
    ELSE LET k == CHOOSE k \in kws : TRUE IN k[2] + SumScores(kws \ {k})

\* the scorer without strings.ToLower on the content
calculateRankCaseSensitive(article) ==
    LET content == article.title \o " " \o article.description
    IN  SumScores({ k \in KeywordsFor(article.category) : Contains(content, k[1]) })

\* calculateRank reads the article's Title, Description and Category; the
\* content is computed once, before the loop over the keywords
calculateRank(article) ==
    LET content == ToLower(article.title \o " " \o article.description)
        rankOf(text) ==
            SumScores({ k \in KeywordsFor(article.category) : Contains(text, k[1]) })
    IN  CHOOSE rank \in { rankOf(text) : text \in { content } } : TRUE

(***************************************************************************)
(* The classifier.                                                         *)
(***************************************************************************)
RssSources ==
    << "https://www.bleepingcomputer.com/feed/",
       "https://feeds.feedburner.com/TheHackersNews",
       "https://blogs.cisco.com/security/feed",
       "https://www.wired.com/feed/category/security/latest/rss",
       "https://www.securityweek.com/feed/",
       "https://news.sophos.com/en-us/feed/",
       "https://www.csoonline.com/feed/",
       "https://www.theverge.com/rss/index.xml",
       "https://techcrunch.com/feed/",
       "https://arstechnica.com/feed/",
       "http://www.engadget.com/rss-full.xml",
       "http://www.fastcodesign.com/rss.xml",
       "http://www.forbes.com/entrepreneurs/index.xml",
       "https://blog.pragmaticengineer.com/rss/",
       "https://browser.engineering/rss.xml",
       "https://githubengineering.com/atom.xml",
       "https://joshwcomeau.com/rss.xml",
       "https://jvns.ca/atom.xml",
       "https://overreacted.io/rss.xml",
       "https://signal.org/blog/rss.xml",
       "https://slack.engineering/feed",
       "https://stripe.com/blog/feed.rss",
       "https://www.defenseone.com/rss/all/",
       "https://thediplomat.com/category/asia-defense/feed/",
       "https://www.janes.com/osint-insights/defence-news/feed/",
       "https://www.militarytimes.com/arc/outboundfeeds/news-rss/",
       "https://www.defensenews.com/arc/outboundfeeds/home-rss/" >>

cybersecuritySources ==
    { "https://www.bleepingcomputer.com/feed/",
      "https://feeds.feedburner.com/TheHackersNews",
      "https://blogs.cisco.com/security/feed",
      "https://www.wired.com/feed/category/security/latest/rss",
      "https://www.securityweek.com/feed/",
      "https://news.sophos.com/en-us/feed/",
      "https://www.csoonline.com/feed/" }

techSources ==
    { "https://www.theverge.com/rss/index.xml",
      "https://techcrunch.com/feed/",
      "https://arstechnica.com/feed/",
      "http://www.engadget.com/rss-full.xml",
      "http://www.fastcodesign.com/rss.com",
      "http://www.forbes.com/entrepreneurs/index.xml",
      "https://blog.pragmaticengineer.com/rss/",
      "https://browser.engineering/rss.xml",
      "https://githubengineering.com/atom.com",
      "https://joshwcomeau.com/rss.xml",
      "https://jvns.ca/atom.xml",
      "https://overreacted.io/rss.com",
      "https://signal.org/blog/rss.com",
      "https://slack.engineering/feed",
      "https://stripe.com/blog/feed.rss" }

defenseSources ==
    { "https://www.defenseone.com/rss/all/",
      "https://thediplomat.com/category/asia-defense/feed/",
      "https://www.janes.com/osint-insights/defence-news/feed/",
      "https://www.militarytimes.com/arc/outboundfeeds/news-rss/",
      "https://www.defensenews.com/arc/outboundfeeds/home-rss/" }

\* the lookup with strings.HasPrefix(sourceURL, s) for s == sourceURL
getCategoryForSourceByPrefix(sourceURL) ==
    LET HasPrefixIn(sources) ==
            \E src \in sources :
                Len(src) <= Len(sourceURL) /\ SubSeq(sourceURL, 1, Len(src)) = src
    IN  IF HasPrefixIn(cybersecuritySources) THEN "Cybersecurity"
        ELSE IF HasPrefixIn(techSources) THEN "Tech"
        ELSE IF HasPrefixIn(defenseSources) THEN "Defense"
        ELSE "General"

getCategoryForSource(sourceURL) ==
    IF sourceURL \in cybersecuritySources THEN "Cybersecurity"
    ELSE IF sourceURL \in techSources THEN "Tech"
    ELSE IF sourceURL \in defenseSources THEN "Defense"
    ELSE "General"

Categories == { "Cybersecurity", "Tech", "Defense", "General" }

(***************************************************************************)
(* Time.  A time.Time is [sec, nsec, off]; a nil *time.Time is <<>> and a  *)
(* non-nil one <<t>>.                                                      *)
(***************************************************************************)
Hour == 3600

\* t.Add(d) for a whole number of seconds d
AddSeconds(t, d) == [t EXCEPT !.sec = t.sec + d]

\* a is the same instant as b or a later one (time.Time.Compare >= 0)
NotBefore(a, b) == a.sec > b.sec \/ (a.sec = b.sec /\ a.nsec >= b.nsec)

\* t.Format("2006-01-02 15:04:05"): the wall clock of t in t's own zone, to
\* the second, without the zone.  The 19 characters order as this number.
FormatDateTime(t) == << t.sec + t.off >>

\* What the sqlite3 driver binds for a time.Time argument: the text
\* "2006-01-02 15:04:05.999999999-07:00", the wall clock of t in t's own
\* zone, then the fraction, then the zone offset.
BindTime(t) == << t.sec + t.off, t.nsec, t.off >>

\* SQLite's comparison a >= b of two TEXT values (BINARY collation): the
\* first differing position decides, and a proper prefix is the smaller.
RECURSIVE TextGEFrom(_, _, _)
TextGEFrom(a, b, i) ==
    IF i > Len(b) THEN TRUE
    ELSE IF i > Len(a) THEN FALSE
    ELSE IF a[i] # b[i] THEN a[i] > b[i]
    ELSE TextGEFrom(a, b, i + 1)

TextGE(a, b) == TextGEFrom(a, b, 1)

(***************************************************************************)
(* The feeds the parser can return and the language detector's answers.    *)
(***************************************************************************)
\* the instant the model starts at: 2024-01-16 12:00:00.5 UTC
StartTime == [sec |-> 1705406400, nsec |-> 500000000]

ItemTime == [sec |-> 1705406400 - 2 * Hour, nsec |-> 0, off |-> 0]
FeedTime == [sec |-> 1705406400 - 30 * Hour, nsec |-> 0, off |-> 2 * Hour]

ItemAlert ==
    [title |-> "Zero-Day Alert", description |-> "<b>Patch</b> now",
     link |-> "https://a.example/1", image |-> <<>>, publishedParsed |-> << ItemTime >>]
ItemGerman ==
    [title |-> "Neue Malware", description |-> "Warnung vor Angriff",
     link |-> "https://a.example/2", image |-> <<>>, publishedParsed |-> << ItemTime >>]
ItemAI ==
    [title |-> "AI News", description |-> "An update",
     link |-> "https://a.example/1", image |-> << [url |-> "https://a.example/i.png"] >>,
     publishedParsed |-> <<>>]
ItemDigits ==
    [title |-> "1234", description |-> "", link |-> "https://a.example/4",
     image |-> <<>>, publishedParsed |-> <<>>]
ItemReport ==
    [title |-> "Report", description |-> "Fleet <i>news</i>",
     link |-> "https://a.example/5", image |-> <<>>, publishedParsed |-> <<>>]

\* the sources StartCachingJob is called with: NumSources of RssSources
SourcePick == << 1, 8, 23, 12 >>
rssSources == [i \in 1..NumSources |-> RssSources[SourcePick[i]]]

\* what fp.ParseURL(source) can return when it succeeds
FeedsOf(source) ==
    CASE source = RssSources[1] ->
            { [items |-> << ItemAlert >>, publishedParsed |-> <<>>] }
      [] source = RssSources[8] ->
            { [items |-> << ItemDigits, ItemGerman, ItemAI >>, publishedParsed |-> <<>>] }
      [] source = RssSources[23] ->
            { [items |-> << ItemReport >>, publishedParsed |-> << FeedTime >>] }
      [] OTHER ->
            { [items |-> <<>>, publishedParsed |-> <<>>] }

NoFeed == [items |-> <<>>, publishedParsed |-> <<>>]

EnglishTexts ==
    { "Zero-Day Alert <b>Patch</b> now", "AI News An update", "Report Fleet <i>news</i>",
      "Critical zero-day exploit found News update: <b>threat report</b>",
      "AI breakthrough Weekly briefing" }
GermanTexts == { "Neue Malware Warnung vor Angriff" }

\* detector.DetectLanguageOf(text): the language, or Unknown when the
\* detector has no confident answer
DetectLanguageOf(text) ==
    IF text \in EnglishTexts THEN "English"
    ELSE IF text \in GermanTexts THEN "German"
    ELSE "Unknown"

(***************************************************************************)
(* State.                                                                  *)
(***************************************************************************)
VARIABLES
    articles,     \* the articles table, rows in insertion order
    insertErr,    \* what the last InsertArticle call returned ("none" before any)
    now,          \* the clock: [sec, nsec]
    localOff,     \* the zone offset of time.Local
    db,           \* the package's *sql.DB: "nil" before InitDB, then "open"
    main,         \* func main: [pc, initErr, count, countErr, backup], the call
                  \* it is at, what InitDB and GetArticleCount returned to it,
                  \* and the file at ./articles.csv ("" when there is none)
    ticks,        \* clock advances so far
    runs,         \* invocations of fetchAndCacheNews so far
    runPc,        \* per run: "idle", "wait" (in wg.Wait), "returned"
    worker,       \* per run and source: [pc, feed, idx, failed]
    articleChan,  \* per run: the buffered channel's content
    closed,       \* per run: close(articleChan) has happened
    writer,       \* per run: the writer goroutine, [pc, article]
    sent,         \* per run: the articles sent on articleChan, in order
    inserted,     \* per run: the articles the writer passed to InsertArticle
    byPipeline,   \* URLs whose stored row a pipeline writer wrote
    submitted,    \* URLs given to an insert since the last clear
    clears,       \* calls of ClearAllArticlesForTest so far
    dbMutex,      \* dbMutex is held
    csv,          \* the LoadArticlesFromCSV call in progress: [pc, file, idx]
    csvErr,       \* what the last LoadArticlesFromCSV call returned ("none" before any)
    loads,        \* calls of LoadArticlesFromCSV so far
    exported,     \* the exported file: [count, records, store], the exports so
                  \* far, the file's records, the store they were written from
    loadLog,      \* history kept where a property needs it: per call of
                  \* LoadArticlesFromCSV [file, before, after, err, done], the
                  \* store when it was called and when it returned
    reply         \* what the query answered in this step is returning to its caller

vars == << articles, insertErr, now, localOff, db, main, ticks, runs, runPc, worker,
           articleChan, closed, writer, sent, inserted, byPipeline, submitted, clears,
           dbMutex, csv, csvErr, loads, exported, loadLog, reply >>

csvVars == << dbMutex, csv, csvErr, loads, exported, loadLog >>

pipelineVars == << runs, runPc, worker, articleChan, closed, writer, sent, inserted >>

Runs == 1..MaxRuns
Workers == 1..NumSources

\* time.Now(): the clock's instant in the zone time.Local
TimeNow == [sec |-> now.sec, nsec |-> now.nsec, off |-> localOff]

NoReply == [op |-> "none"]

\* func main is not running: the package is used by its tests
NoMain == [pc |-> "none", initErr |-> "none", count |-> 0, countErr |-> "none", backup |-> ""]

(***************************************************************************)
(* The store.                                                              *)
(***************************************************************************)
HasURL(table, url) == \E i \in 1..Len(table) : table[i].url = url

\* the statement on a table whose url column is not declared UNIQUE
ExecInsertNoUnique(table, row) == [table |-> Append(table, row), err |-> "nil"]

\* INSERT INTO without OR IGNORE: a conflicting url is a constraint error
ExecInsert(table, row) ==
    IF HasURL(table, row.url)
    THEN [table |-> table, err |-> "UNIQUE constraint failed: articles.url"]
    ELSE [table |-> Append(table, row), err |-> "nil"]

\* INSERT OR REPLACE INTO: the conflicting row is deleted, the new one added
ExecInsertOrReplace(table, row) ==
    [table |-> Append(SelectSeq(table, LAMBDA old : old.url # row.url), row), err |-> "nil"]

\* INSERT OR IGNORE INTO articles(...) under the table's UNIQUE(url)
ExecInsertOrIgnore(table, row) ==
    IF HasURL(table, row.url)
    THEN [table |-> table, err |-> "nil"]
    ELSE [table |-> Append(table, row), err |-> "nil"]

InsertArticle(table, article) == ExecInsertOrIgnore(table, article)

(***************************************************************************)
(* fetchAndCacheNews.                                                      *)
(***************************************************************************)
\* the publication time a worker gives its article: the item's, else the
\* feed's, else the current time
PublishedAtOf(feed, item) ==
    IF item.publishedParsed # <<>> THEN item.publishedParsed[1]
    ELSE IF feed.publishedParsed # <<>> THEN feed.publishedParsed[1]
    ELSE TimeNow

\* the worker's article with the rank computed from the feed's description,
\* before the markup is stripped
BuildArticleRankOfRawDescription(source, feed, item) ==
    [title |-> item.title,
     description |-> Sanitize(item.description),
     imageUrl |-> IF item.image # <<>> THEN item.image[1].url ELSE "",
     url |-> item.link,
     sourceUrl |-> source,
     publishedAt |-> PublishedAtOf(feed, item),
     rank |-> calculateRank([title |-> item.title, description |-> item.description,
                             category |-> getCategoryForSource(source)]),
     category |-> getCategoryForSource(source)]

\* the worker's article with the category looked up for the article's own
\* link instead of the feed's source URL
BuildArticleClassifiedByLink(source, feed, item) ==
    LET article == [title |-> item.title,
                    description |-> Sanitize(item.description),
                    imageUrl |-> IF item.image # <<>> THEN item.image[1].url ELSE "",
                    url |-> item.link,
                    sourceUrl |-> source,
                    publishedAt |-> PublishedAtOf(feed, item),
                    rank |-> 0,
                    category |-> getCategoryForSource(item.link)]
    IN  [article EXCEPT !.rank = calculateRank(article)]

\* the article a worker builds from a feed item
BuildArticle(source, feed, item) ==
    LET category == getCategoryForSource(source)
        article == [title |-> item.title,
                    description |-> Sanitize(item.description),
                    imageUrl |-> "",
                    url |-> item.link,
                    sourceUrl |-> source,
                    publishedAt |-> TimeNow,
                    rank |-> 0,
                    category |-> category]
        ranked == [article EXCEPT !.rank = calculateRank(article)]
        withImage == IF item.image # <<>>
                     THEN [ranked EXCEPT !.imageUrl = item.image[1].url]
                     ELSE ranked
    IN  [withImage EXCEPT !.publishedAt = PublishedAtOf(feed, item)]

\* a filter that rejects only the items detected as another language and
\* lets the items with no confident detection through
AcceptedUnlessOtherLanguage(item) ==
    DetectLanguageOf(item.title \o " " \o item.description) \in { "English", "Unknown" }

\* the language filter of the item loop
Accepted(item) == DetectLanguageOf(item.title \o " " \o item.description) = "English"

\* the worker's position after the item at idx: the next item, or the
\* deferred wg.Done() once the loop is over
AfterItem(w, idx) ==
    IF idx + 1 > Len(w.feed.items)
    THEN [w EXCEPT !.pc = "done", !.idx = idx + 1]
    ELSE [w EXCEPT !.idx = idx + 1]

\* a scheduler that starts each invocation in a goroutine of its own, not
\* waiting for the one before
RunStartWithoutWaiting(r) ==
    /\ r = runs + 1
    /\ r <= MaxRuns
    /\ runs' = r
    /\ runPc' = [runPc EXCEPT ![r] = "wait"]
    /\ worker' = [worker EXCEPT ![r] =
                    [w \in Workers |-> [pc |-> "fetch", feed |-> NoFeed, idx |-> 1, failed |-> FALSE]]]
    /\ writer' = [writer EXCEPT ![r] = [pc |-> "recv", article |-> <<>>]]
    /\ reply' = NoReply
    /\ UNCHANGED << articles, insertErr, now, localOff, db, main, ticks, articleChan, closed,
                    sent, inserted, byPipeline, submitted, clears, csvVars >>

\* StartCachingJob calls fetchAndCacheNews at startup and then from the
\* ticker goroutine's loop, one call after the other; the call makes the
\* channel and starts the writer and one worker per source.
RunStart(r) ==
    /\ r = runs + 1
    /\ r <= MaxRuns
    /\ r > 1 => runPc[r - 1] = "returned"
    /\ runs' = r
    /\ runPc' = [runPc EXCEPT ![r] = "wait"]
    /\ worker' = [worker EXCEPT ![r] =
                    [w \in Workers |-> [pc |-> "fetch", feed |-> NoFeed, idx |-> 1, failed |-> FALSE]]]
    /\ writer' = [writer EXCEPT ![r] = [pc |-> "recv", article |-> <<>>]]
    /\ reply' = NoReply
    /\ UNCHANGED << articles, insertErr, now, localOff, db, main, ticks, articleChan, closed,
                    sent, inserted, byPipeline, submitted, clears, csvVars >>

\* a worker that logs the failure of fp.ParseURL(source) and fetches again
WorkerFetchFailRetries(r, w) ==
    /\ worker[r][w].pc = "fetch"
    /\ ~worker[r][w].failed
    /\ worker' = [worker EXCEPT ![r][w] = [@ EXCEPT !.failed = TRUE]]
    /\ reply' = NoReply
    /\ UNCHANGED << articles, insertErr, now, localOff, db, main, ticks, runs, runPc, articleChan,
                    closed, writer, sent, inserted, byPipeline, submitted, clears, csvVars >>

\* fp.ParseURL(source) fails: the worker logs and returns
WorkerFetchFail(r, w) ==
    /\ worker[r][w].pc = "fetch"
    /\ worker' = [worker EXCEPT ![r][w] = [@ EXCEPT !.pc = "done", !.failed = TRUE]]
    /\ reply' = NoReply
    /\ UNCHANGED << articles, insertErr, now, localOff, db, main, ticks, runs, runPc, articleChan,
                    closed, writer, sent, inserted, byPipeline, submitted, clears, csvVars >>

\* fp.ParseURL(source) returns a feed
WorkerFetchOk(r, w) ==
    /\ worker[r][w].pc = "fetch"
    /\ \E feed \in FeedsOf(rssSources[w]) :
          worker' = [worker EXCEPT ![r][w] =
                        [@ EXCEPT !.feed = feed,
                                  !.pc = IF Len(feed.items) = 0 THEN "done" ELSE "loop"]]
    /\ reply' = NoReply
    /\ UNCHANGED << articles, insertErr, now, localOff, db, main, ticks, runs, runPc, articleChan,
                    closed, writer, sent, inserted, byPipeline, submitted, clears, csvVars >>

\* one iteration of the item loop whose item the language filter rejects
WorkerSkip(r, w) ==
    /\ worker[r][w].pc = "loop"
    /\ ~Accepted(worker[r][w].feed.items[worker[r][w].idx])
    /\ worker' = [worker EXCEPT ![r][w] = AfterItem(@, @.idx)]
    /\ reply' = NoReply
    /\ UNCHANGED << articles, insertErr, now, localOff, db, main, ticks, runs, runPc, articleChan,
                    closed, writer, sent, inserted, byPipeline, submitted, clears, csvVars >>

\* one iteration of the item loop for an accepted item: build the article
\* and send it; the send blocks while the channel is full
WorkerSend(r, w) ==
    /\ worker[r][w].pc = "loop"
    /\ Accepted(worker[r][w].feed.items[worker[r][w].idx])
    /\ Len(articleChan[r]) < ChanCap
    /\ LET me == worker[r][w]
           article == BuildArticle(rssSources[w], me.feed, me.feed.items[me.idx])
       IN  /\ articleChan' = [articleChan EXCEPT ![r] = Append(@, article)]
           /\ sent' = [sent EXCEPT ![r] = Append(@, article)]
    /\ worker' = [worker EXCEPT ![r][w] = AfterItem(@, @.idx)]
    /\ reply' = NoReply
    /\ UNCHANGED << articles, insertErr, now, localOff, db, main, ticks, runs, runPc,
                    closed, writer, inserted, byPipeline, submitted, clears, csvVars >>

\* a close and return without wg.Wait()
RunFinishWithoutWaiting(r) ==
    /\ runPc[r] = "wait"
    /\ closed' = [closed EXCEPT ![r] = TRUE]
    /\ runPc' = [runPc EXCEPT ![r] = "returned"]
    /\ reply' = NoReply
    /\ UNCHANGED << articles, insertErr, now, localOff, db, main, ticks, runs, worker, articleChan,
                    writer, sent, inserted, byPipeline, submitted, clears, csvVars >>

\* a return after wg.Wait() that leaves the channel open
RunFinishWithoutClose(r) ==
    /\ runPc[r] = "wait"
    /\ \A w \in Workers : worker[r][w].pc = "done"
    /\ runPc' = [runPc EXCEPT ![r] = "returned"]
    /\ reply' = NoReply
    /\ UNCHANGED << articles, insertErr, now, localOff, db, main, ticks, runs, worker, articleChan,
                    closed, writer, sent, inserted, byPipeline, submitted, clears, csvVars >>

\* wg.Wait() returns once every worker has called wg.Done(); then
\* close(articleChan), the completion log line, and the return
RunFinish(r) ==
    /\ runPc[r] = "wait"
    /\ \A w \in Workers : worker[r][w].pc = "done"
    /\ closed' = [closed EXCEPT ![r] = TRUE]
    /\ runPc' = [runPc EXCEPT ![r] = "returned"]
    /\ reply' = NoReply
    /\ UNCHANGED << articles, insertErr, now, localOff, db, main, ticks, runs, worker, articleChan,
                    writer, sent, inserted, byPipeline, submitted, clears, csvVars >>

\* the writer goroutine: for article := range articleChan
WriterRecv(r) ==
    /\ writer[r].pc = "recv"
    /\ articleChan[r] # <<>>
    /\ writer' = [writer EXCEPT ![r] = [pc |-> "insert", article |-> << Head(articleChan[r]) >>]]
    /\ articleChan' = [articleChan EXCEPT ![r] = Tail(@)]
    /\ reply' = NoReply
    /\ UNCHANGED << articles, insertErr, now, localOff, db, main, ticks, runs, runPc, worker,
                    closed, sent, inserted, byPipeline, submitted, clears, csvVars >>

\* the writer goroutine: InsertArticle(article)
WriterInsert(r) ==
    /\ writer[r].pc = "insert"
    /\ LET article == writer[r].article[1]
           res == InsertArticle(articles, article)
       IN  /\ articles' = res.table
           /\ insertErr' = res.err
           /\ inserted' = [inserted EXCEPT ![r] = Append(@, article)]
           /\ byPipeline' = IF Len(res.table) > Len(articles)
                            THEN byPipeline \cup { article.url } ELSE byPipeline
           /\ submitted' = IF res.err = "nil" THEN submitted \cup { article.url } ELSE submitted
    /\ writer' = [writer EXCEPT ![r] = [pc |-> "recv", article |-> <<>>]]
    /\ reply' = NoReply
    /\ UNCHANGED << now, localOff, db, main, ticks, runs, runPc, worker, articleChan, closed, sent, clears,
                    csvVars >>

\* a writer that leaves its loop as soon as the channel is closed
WriterExitAtClose(r) ==
    /\ writer[r].pc = "recv"
    /\ closed[r]
    /\ writer' = [writer EXCEPT ![r] = [pc |-> "exit", article |-> <<>>]]
    /\ reply' = NoReply
    /\ UNCHANGED << articles, insertErr, now, localOff, db, main, ticks, runs, runPc, worker,
                    articleChan, closed, sent, inserted, byPipeline, submitted, clears, csvVars >>

\* the writer goroutine: the range loop ends on a closed, empty channel
WriterExit(r) ==
    /\ writer[r].pc = "recv"
    /\ articleChan[r] = <<>>
    /\ closed[r]
    /\ writer' = [writer EXCEPT ![r] = [pc |-> "exit", article |-> <<>>]]
    /\ reply' = NoReply
    /\ UNCHANGED << articles, insertErr, now, localOff, db, main, ticks, runs, runPc, worker,
                    articleChan, closed, sent, inserted, byPipeline, submitted, clears, csvVars >>

(***************************************************************************)
(* LoadArticlesFromCSV.  A file is the sequence of records csv.Reader      *)
(* yields, the header first; a path with no file has no records to open.   *)
(***************************************************************************)
expectedHeaders ==
    << "Title", "Description", "ImageURL", "URL", "SourceURL", "PublishedAt", "Rank", "Category" >>

ArticlesCsv ==
    << expectedHeaders,
       << "Test Article 1", "Description for article 1", "https://img.example.com/1.jpg",
          "https://example.com/1", "https://source.example.com", "2024-01-15T10:30:00Z",
          "5", "Cybersecurity" >>,
       << "Bad Date", "Description 2", "", "https://example.com/2",
          "https://source.example.com", "15/01/2024", "3", "Tech" >>,
       << "Restored Alert", "Restored", "", "https://a.example/1",
          "https://www.bleepingcomputer.com/feed/", "2024-01-16T09:00:00+02:00",
          "1", "Cybersecurity" >>,
       << "Test Article 1 Duplicate", "Description 2", "", "https://example.com/1",
          "https://source.example.com", "2024-01-16T11:30:00Z", "3", "Tech" >> >>

InvalidCsv == << << "Col1", "Col2", "Col3" >>, << "val1", "val2", "val3" >> >>

\* a file whose data rows are malformed at the first, a middle and the last
\* position: a row of 7 columns, a rank that is no integer, a month 13
MixedCsv ==
    << expectedHeaders,
       << "Short Row", "Description", "", "https://example.com/s",
          "https://source.example.com", "2024-01-15T08:00:00Z", "4" >>,
       << "Mixed A", "Description A", "", "https://example.com/a",
          "https://source.example.com", "2024-01-15T08:00:00Z", "2", "General" >>,
       << "Bad Rank", "Description B", "", "https://example.com/b",
          "https://source.example.com", "2024-01-15T09:00:00Z", "high", "Tech" >>,
       << "Mixed C", "Description C", "", "https://example.com/1",
          "https://source.example.com", "2024-01-15T10:00:00Z", "7", "Defense" >>,
       << "Bad Month", "Description D", "", "https://example.com/d",
          "https://source.example.com", "2024-13-01T00:00:00Z", "1", "Tech" >> >>

\* a header of 7 columns over a data row that is well-formed by itself
ShortHeaderCsv ==
    << SubSeq(expectedHeaders, 1, 7),
       << "Under Short Header", "Description", "", "https://example.com/h",
          "https://source.example.com", "2024-01-15T08:00:00Z", "2", "General" >> >>

\* the files there are; the export's file is there once it has been written
ExistingFiles ==
    { "articles.csv", "invalid_articles.csv", "mixed.csv", "short_header.csv", "empty.csv" }
        \cup { f \in { "export.csv" } : exported.count > 0 }

\* the paths LoadArticlesFromCSV is called with next to a running pipeline
FilePaths == { "articles.csv", "invalid_articles.csv", "/nonexistent/path/to/file.csv" }

FileRecords(filePath) ==
    CASE filePath = "articles.csv" -> ArticlesCsv
      [] filePath = "invalid_articles.csv" -> InvalidCsv
      [] filePath = "mixed.csv" -> MixedCsv
      [] filePath = "short_header.csv" -> ShortHeaderCsv
      [] filePath = "export.csv" -> exported.records
      [] OTHER -> <<>>

\* the checks before the record loop without the header's column count
HeaderErrorWithoutColumnCount(filePath) ==
    IF filePath \notin ExistingFiles THEN "failed to open CSV file"
    ELSE IF Len(FileRecords(filePath)) = 0 THEN "failed to read CSV header"
    ELSE "nil"

\* the error LoadArticlesFromCSV returns before it reads any data row, or
\* "nil" when the file opens and its header has the expected column count
HeaderError(filePath) ==
    IF filePath \notin ExistingFiles THEN "failed to open CSV file"
    ELSE IF Len(FileRecords(filePath)) = 0 THEN "failed to read CSV header"
    ELSE IF Len(FileRecords(filePath)[1]) # Len(expectedHeaders) THEN "invalid CSV header"
    ELSE "nil"

\* a data row passes the column count, the date parse and the rank parse
RecordOk(record) ==
    /\ Len(record) = 8
    /\ ParseRFC3339(record[6]).ok
    /\ Atoi(record[7]).ok

\* the values stmt.Exec binds for a data row
RecordRow(record) ==
    [title |-> record[1],
     description |-> record[2],
     imageUrl |-> record[3],
     url |-> record[4],
     sourceUrl |-> record[5],
     publishedAt |-> ParseRFC3339(record[6]).time,
     rank |-> Atoi(record[7]).val,
     category |-> record[8]]

\* lock, then open or header check fail: the error is returned and the
\* deferred unlock runs
LoadFail(filePath) ==
    /\ csv.pc = "idle"
    /\ ~dbMutex
    /\ HeaderError(filePath) # "nil"
    /\ loads' = loads + 1
    /\ csvErr' = HeaderError(filePath)
    /\ reply' = NoReply
    /\ UNCHANGED << articles, insertErr, now, localOff, db, main, ticks, pipelineVars, byPipeline,
                    submitted, clears, dbMutex, csv, exported >>

\* lock, open, header check and db.Prepare succeed
LoadBegin(filePath) ==
    /\ csv.pc = "idle"
    /\ ~dbMutex
    /\ HeaderError(filePath) = "nil"
    /\ loads' = loads + 1
    /\ dbMutex' = TRUE
    /\ csv' = [pc |-> "rows", file |-> filePath, idx |-> 2]
    /\ reply' = NoReply
    /\ UNCHANGED << articles, insertErr, now, localOff, db, main, ticks, pipelineVars, byPipeline,
                    submitted, clears, csvErr, exported >>

\* a record loop that returns an error at a malformed record
LoadAbortAtRecord ==
    /\ csv.pc = "rows"
    /\ csv.idx <= Len(FileRecords(csv.file))
    /\ ~RecordOk(FileRecords(csv.file)[csv.idx])
    /\ csv' = [pc |-> "idle", file |-> "", idx |-> 0]
    /\ dbMutex' = FALSE
    /\ csvErr' = "invalid record"
    /\ reply' = NoReply
    /\ UNCHANGED << articles, insertErr, now, localOff, db, main, ticks, pipelineVars, byPipeline,
                    submitted, clears, loads, exported >>

\* one iteration of the record loop that skips its record
LoadSkipRecord ==
    /\ csv.pc = "rows"
    /\ csv.idx <= Len(FileRecords(csv.file))
    /\ ~RecordOk(FileRecords(csv.file)[csv.idx])
    /\ csv' = [csv EXCEPT !.idx = @ + 1]
    /\ reply' = NoReply
    /\ UNCHANGED << articles, insertErr, now, localOff, db, main, ticks, pipelineVars, byPipeline,
                    submitted, clears, dbMutex, csvErr, loads, exported >>

\* one iteration of the record loop that executes the insert statement
LoadInsertRecord ==
    /\ csv.pc = "rows"
    /\ csv.idx <= Len(FileRecords(csv.file))
    /\ RecordOk(FileRecords(csv.file)[csv.idx])
    /\ LET row == RecordRow(FileRecords(csv.file)[csv.idx])
           res == ExecInsertOrIgnore(articles, row)
       IN  /\ articles' = res.table
           /\ submitted' = IF res.err = "nil" THEN submitted \cup { row.url } ELSE submitted
    /\ csv' = [csv EXCEPT !.idx = @ + 1]
    /\ reply' = NoReply
    /\ UNCHANGED << insertErr, now, localOff, db, main, ticks, pipelineVars, byPipeline,
                    clears, dbMutex, csvErr, loads, exported >>

\* io.EOF: the loop ends, nil is returned and the deferred unlock runs
LoadEnd ==
    /\ csv.pc = "rows"
    /\ csv.idx > Len(FileRecords(csv.file))
    /\ csv' = [pc |-> "idle", file |-> "", idx |-> 0]
    /\ dbMutex' = FALSE
    /\ csvErr' = "nil"
    /\ reply' = NoReply
    /\ UNCHANGED << articles, insertErr, now, localOff, db, main, ticks, pipelineVars, byPipeline,
                    submitted, clears, loads, exported >>

(***************************************************************************)
(* ClearAllArticlesForTest and the clock.                                  *)
(***************************************************************************)
ClearAllArticlesForTest ==
    /\ clears < MaxClears
    /\ clears' = clears + 1
    /\ articles' = <<>>
    /\ byPipeline' = {}
    /\ submitted' = {}
    /\ reply' = NoReply
    /\ UNCHANGED << insertErr, now, localOff, db, main, ticks, pipelineVars, csvVars >>

\* an hour passes
Tick ==
    /\ ticks < MaxTicks
    /\ ticks' = ticks + 1
    /\ now' = [now EXCEPT !.sec = @ + Hour]
    /\ reply' = NoReply
    /\ UNCHANGED << articles, insertErr, localOff, db, main, pipelineVars, byPipeline, submitted, clears, csvVars >>

(***************************************************************************)
(* The queries.  A query changes nothing; reply holds its answer during    *)
(* the step that returns it.                                               *)
(***************************************************************************)
\* the rows of SELECT rank FROM articles WHERE publishedAt >= ?, the
\* argument being twentyFourHoursAgo.Format("2006-01-02 15:04:05")
RowsSince(table, tnow) ==
    LET twentyFourHoursAgo == AddSeconds(tnow, 0 - 24 * Hour)
    IN  { i \in 1..Len(table) :
            TextGE(BindTime(table[i].publishedAt), FormatDateTime(twentyFourHoursAgo)) }

\* the level with the medium bucket looked at before the high one
ThreatLevelMediumFirst(totalArticles, mediumRankCount, highRankCount) ==
    IF totalArticles = 0 THEN "No Threats Reported"
    ELSE IF mediumRankCount > 0 THEN "Attention"
    ELSE IF highRankCount > 0 THEN "Code Red"
    ELSE "Business as Usual"

\* the threat level from the counts of the selected rows
ThreatLevelOf(totalArticles, mediumRankCount, highRankCount) ==
    IF totalArticles = 0 THEN "No Threats Reported"
    ELSE IF highRankCount > 0 THEN "Code Red"
    ELSE IF mediumRankCount > 0 THEN "Attention"
    ELSE "Business as Usual"

GetTodayThreatScore(table, tnow) ==
    LET rows == RowsSince(table, tnow)
        lowRankCount == Cardinality({ i \in rows : table[i].rank < 2 })
        mediumRankCount == Cardinality({ i \in rows : ~(table[i].rank < 2) /\ table[i].rank < 5 })
        highRankCount == Cardinality({ i \in rows : ~(table[i].rank < 2) /\ ~(table[i].rank < 5) })
        totalArticles == Cardinality(rows)
    IN  [lowRankCount |-> lowRankCount,
         mediumRankCount |-> mediumRankCount,
         highRankCount |-> highRankCount,
         totalArticles |-> totalArticles,
         threatLevel |-> ThreatLevelOf(totalArticles, mediumRankCount, highRankCount)]

\* SELECT COUNT(*) FROM articles
GetArticleCount(table) == Len(table)

\* the rows of GetAllArticlesStream: ORDER BY publishedAt DESC, the column
\* compared as the text stored
RECURSIVE OrderByPublishedAtDesc(_)
OrderByPublishedAtDesc(table) ==
    IF table = <<>> THEN <<>>
    ELSE LET first == CHOOSE i \in 1..Len(table) :
                         \A j \in 1..Len(table) :
                             \/ ~TextGE(BindTime(table[j].publishedAt),
                                        BindTime(table[i].publishedAt))
                             \/ (TextGE(BindTime(table[i].publishedAt),
                                        BindTime(table[j].publishedAt)) /\ i <= j)
             rest == [k \in 1..(Len(table) - 1) |-> IF k < first THEN table[k] ELSE table[k + 1]]
         IN  << table[first] >> \o OrderByPublishedAtDesc(rest)

GetAllArticlesStream(table) == OrderByPublishedAtDesc(table)

\* SQLite's text LIKE pattern: "%" stands for any run of characters, "_"
\* for any one, letters match without regard to case
RECURSIVE LikeFrom(_, _, _, _)
LikeFrom(text, i, pattern, j) ==
    IF j > Len(pattern) THEN i > Len(text)
    ELSE IF CharAt(pattern, j) = "%"
         THEN \E k \in i..(Len(text) + 1) : LikeFrom(text, k, pattern, j + 1)
         ELSE /\ i <= Len(text)
              /\ \/ CharAt(pattern, j) = "_"
                 \/ LowerChar(CharAt(text, i)) = LowerChar(CharAt(pattern, j))
              /\ LikeFrom(text, i + 1, pattern, j + 1)

Like(text, pattern) == LikeFrom(text, 1, pattern, 1)

\* the zero time.Time, January 1 of year 1, 00:00:00 UTC: its Unix second,
\* -62135596800, is below every second the program reads from a clock or a
\* feed, and is written here as the least second of the range
ZeroTime == [sec |-> 0 - 2147483647, nsec |-> 0, off |-> 0]

IsZero(t) == t.sec = ZeroTime.sec /\ t.nsec = 0

\* the rows ORDER BY rank DESC, rows of equal rank in the table's order
RECURSIVE OrderByRankDesc(_)
OrderByRankDesc(table) ==
    IF table = <<>> THEN <<>>
    ELSE LET first == CHOOSE i \in 1..Len(table) :
                         \A j \in 1..Len(table) :
                             table[j].rank < table[i].rank
                                 \/ (table[j].rank = table[i].rank /\ i <= j)
             rest == [k \in 1..(Len(table) - 1) |-> IF k < first THEN table[k] ELSE table[k + 1]]
         IN  << table[first] >> \o OrderByRankDesc(rest)

\* the query GetArticlesFromDB builds and runs on an open database
GetArticlesFromDB(table, sourceFilter, categoryFilter, searchFilter, limit, startDate, endDate, sortBy) ==
    LET searchPattern == "%" \o ToLower(searchFilter) \o "%"
        Selected(row) ==
            /\ (sourceFilter # "" /\ sourceFilter # "all") => row.sourceUrl = sourceFilter
            /\ (categoryFilter # "" /\ categoryFilter # "all") => row.category = categoryFilter
            /\ searchFilter # "" =>
                  \/ Like(ToLower(row.title), searchPattern)
                  \/ Like(ToLower(row.description), searchPattern)
            /\ ~IsZero(startDate) =>
                  TextGE(BindTime(row.publishedAt), FormatDateTime(startDate))
            /\ ~IsZero(endDate) =>
                  TextGE(FormatDateTime(endDate), BindTime(row.publishedAt))
        rows == SelectSeq(table, Selected)
        ordered == IF sortBy = "rank" THEN OrderByRankDesc(rows)
                   ELSE OrderByPublishedAtDesc(rows)
    IN  IF limit > 0 /\ limit < Len(ordered) THEN SubSeq(ordered, 1, limit) ELSE ordered

\* what a method call on the nil *sql.DB does
NilDereference == "runtime error: invalid memory address or nil pointer dereference"

\* the call has panicked: it returns nothing to its caller
Panicked == "panic" \in DOMAIN reply

\* articles, err := GetArticlesFromDB(...)
QueryArticles(sourceFilter, categoryFilter, searchFilter, limit, startDate, endDate, sortBy) ==
    /\ reply' = IF db = "nil"
                THEN [op |-> "GetArticlesFromDB", articles |-> <<>>,
                      err |-> "database connection is nil"]
                ELSE [op |-> "GetArticlesFromDB",
                      call |-> [sourceFilter |-> sourceFilter,
                                categoryFilter |-> categoryFilter,
                                searchFilter |-> searchFilter, limit |-> limit,
                                startDate |-> startDate, endDate |-> endDate,
                                sortBy |-> sortBy],
                      articles |-> GetArticlesFromDB(articles, sourceFilter, categoryFilter,
                                                     searchFilter, limit, startDate, endDate,
                                                     sortBy),
                      err |-> "nil"]
    /\ UNCHANGED << articles, insertErr, now, localOff, db, main, ticks, pipelineVars, byPipeline,
                    submitted, clears, csvVars >>

\* rows, err := GetAllArticlesStream()
QueryAllArticlesStream ==
    /\ reply' = IF db = "nil"
                THEN [op |-> "GetAllArticlesStream", rows |-> <<>>,
                      err |-> "database connection is nil"]
                ELSE [op |-> "GetAllArticlesStream", rows |-> GetAllArticlesStream(articles),
                      err |-> "nil"]
    /\ UNCHANGED << articles, insertErr, now, localOff, db, main, ticks, pipelineVars, byPipeline,
                    submitted, clears, csvVars >>

\* score, err := GetTodayThreatScore(): there is no check of db before
\* db.Query
QueryThreatScore ==
    /\ reply' = IF db = "nil"
                THEN [op |-> "GetTodayThreatScore", panic |-> NilDereference]
                ELSE [op |-> "GetTodayThreatScore",
                      score |-> GetTodayThreatScore(articles, TimeNow), err |-> "nil"]
    /\ UNCHANGED << articles, insertErr, now, localOff, db, main, ticks, pipelineVars, byPipeline,
                    submitted, clears, csvVars >>

\* count, err := GetArticleCount()
QueryArticleCount ==
    /\ reply' = IF db = "nil"
                THEN [op |-> "GetArticleCount", count |-> 0,
                      err |-> "database connection is nil"]
                ELSE [op |-> "GetArticleCount", count |-> GetArticleCount(articles),
                      err |-> "nil"]
    /\ UNCHANGED << articles, insertErr, now, localOff, db, main, ticks, pipelineVars, byPipeline,
                    submitted, clears, csvVars >>

(***************************************************************************)
(* The specification.                                                      *)
(***************************************************************************)
Init ==
    /\ articles = <<>>
    /\ insertErr = "none"
    /\ now = StartTime
    /\ localOff = 0
    /\ db = "open"
    /\ main = NoMain
    /\ ticks = 0
    /\ runs = 0
    /\ runPc = [r \in Runs |-> "idle"]
    /\ worker = [r \in Runs |-> [w \in Workers |->
                    [pc |-> "idle", feed |-> NoFeed, idx |-> 1, failed |-> FALSE]]]
    /\ articleChan = [r \in Runs |-> <<>>]
    /\ closed = [r \in Runs |-> FALSE]
    /\ writer = [r \in Runs |-> [pc |-> "none", article |-> <<>>]]
    /\ sent = [r \in Runs |-> <<>>]
    /\ inserted = [r \in Runs |-> <<>>]
    /\ byPipeline = {}
    /\ submitted = {}
    /\ clears = 0
    /\ dbMutex = FALSE
    /\ csv = [pc |-> "idle", file |-> "", idx |-> 0]
    /\ exported = [count |-> 0, records |-> <<>>, store |-> <<>>]
    /\ loadLog = <<>>
    /\ csvErr = "none"
    /\ loads = 0
    /\ reply = NoReply

Next ==
    \/ \E r \in Runs : RunStart(r)
    \/ \E r \in Runs, w \in Workers : WorkerFetchFail(r, w)
    \/ \E r \in Runs, w \in Workers : WorkerFetchOk(r, w)
    \/ \E r \in Runs, w \in Workers : WorkerSkip(r, w)
    \/ \E r \in Runs, w \in Workers : WorkerSend(r, w)
    \/ \E r \in Runs : RunFinish(r)
    \/ \E r \in Runs : WriterRecv(r)
    \/ \E r \in Runs : WriterInsert(r)
    \/ \E r \in Runs : WriterExit(r)
    \/ \E filePath \in FilePaths :
          loads < MaxLoads /\ LoadFail(filePath) /\ UNCHANGED loadLog
    \/ \E filePath \in FilePaths :
          loads < MaxLoads /\ LoadBegin(filePath) /\ UNCHANGED loadLog
    \/ LoadSkipRecord /\ UNCHANGED loadLog
    \/ LoadInsertRecord /\ UNCHANGED loadLog
    \/ LoadEnd /\ UNCHANGED loadLog
    \/ ClearAllArticlesForTest
    \/ QueryArticleCount

Spec == Init /\ [][Next]_vars

\* the Go scheduler runs every goroutine that can run: a writer that can
\* receive or is in InsertArticle does its step
FairWriters == \A r \in Runs : WF_vars(WriterRecv(r)) /\ WF_vars(WriterInsert(r))

\* StartCachingJob alone: the invocations of fetchAndCacheNews, their
\* workers and their writers
NextCachingJob ==
    \/ \E r \in Runs : RunStart(r)
    \/ \E r \in Runs, w \in Workers : WorkerFetchFail(r, w)
    \/ \E r \in Runs, w \in Workers : WorkerFetchOk(r, w)
    \/ \E r \in Runs, w \in Workers : WorkerSkip(r, w)
    \/ \E r \in Runs, w \in Workers : WorkerSend(r, w)
    \/ \E r \in Runs : RunFinish(r)
    \/ \E r \in Runs : WriterRecv(r)
    \/ \E r \in Runs : WriterInsert(r)
    \/ \E r \in Runs : WriterExit(r)

SpecFairWriters == Init /\ [][NextCachingJob]_vars /\ FairWriters

\* a step of one of the goroutines of run r: a worker, the caller in
\* wg.Wait, the writer
RunStep(r) ==
    \/ \E w \in Workers : WorkerFetchFail(r, w) \/ WorkerFetchOk(r, w)
    \/ \E w \in Workers : WorkerSkip(r, w) \/ WorkerSend(r, w)
    \/ RunFinish(r)
    \/ WriterRecv(r) \/ WriterInsert(r) \/ WriterExit(r)

\* while a goroutine of a run can take a step, one of them does: every
\* fetch returns, with a feed or with an error, and the scheduler runs a
\* goroutine that is ready
FairCachingJob == \A r \in Runs : WF_vars(RunStep(r))

SpecFairCachingJob == Init /\ [][NextCachingJob]_vars /\ FairCachingJob

(***************************************************************************)
(* The store used directly, as db_test.go uses it: InsertArticle called    *)
(* with given articles, the clock advancing, the queries, the clear.       *)
(***************************************************************************)
\* a models.NewsArticle literal of the tests: the fields not given are zero
TestArticle(title, url, publishedAt, rank) ==
    [title |-> title, description |-> "", imageUrl |-> "", url |-> url, sourceUrl |-> "",
     publishedAt |-> publishedAt, rank |-> rank, category |-> "Cybersecurity"]

\* the start time in the zone time.Local, as time.Now() gives it
StartNow == [sec |-> StartTime.sec, nsec |-> StartTime.nsec, off |-> localOff]

TestArticles ==
    { TestArticle("t2", "u2", AddSeconds(StartNow, 1800 - 24 * Hour), 5),
      TestArticle("t3", "u3", AddSeconds(StartNow, 0 - 3 * Hour), 4),
      TestArticle("t4", "u4", AddSeconds(StartNow, 0 - 4 * Hour), 2),
      TestArticle("t5", "u5", AddSeconds(StartNow, 0 - 5 * Hour), 1),
      \* 20 hours old, published in the zone UTC-07:00
      TestArticle("t6", "u6",
                  [sec |-> StartTime.sec - 20 * Hour, nsec |-> 0, off |-> 0 - 7 * Hour], 3),
      \* a whole second, half a second more than 24 hours old at the start
      TestArticle("t7", "u7",
                  [sec |-> StartTime.sec - 24 * Hour, nsec |-> 0, off |-> localOff], 1) }

\* err := InsertArticle(article)
CallInsertArticle(article) ==
    /\ LET res == InsertArticle(articles, article)
       IN  /\ articles' = res.table
           /\ insertErr' = res.err
           /\ submitted' = IF res.err = "nil" THEN submitted \cup { article.url } ELSE submitted
    /\ reply' = NoReply
    /\ UNCHANGED << now, localOff, db, main, ticks, pipelineVars, byPipeline, clears, csvVars >>

\* the zone offsets time.Local may have
LocalOffsets == { 0, 2 * Hour }

InitStore ==
    /\ articles = <<>>
    /\ insertErr = "none"
    /\ now = StartTime
    /\ localOff \in LocalOffsets
    /\ db = "open"
    /\ main = NoMain
    /\ ticks = 0
    /\ runs = 0
    /\ runPc = [r \in Runs |-> "idle"]
    /\ worker = [r \in Runs |-> [w \in Workers |->
                    [pc |-> "idle", feed |-> NoFeed, idx |-> 1, failed |-> FALSE]]]
    /\ articleChan = [r \in Runs |-> <<>>]
    /\ closed = [r \in Runs |-> FALSE]
    /\ writer = [r \in Runs |-> [pc |-> "none", article |-> <<>>]]
    /\ sent = [r \in Runs |-> <<>>]
    /\ inserted = [r \in Runs |-> <<>>]
    /\ byPipeline = {}
    /\ submitted = {}
    /\ clears = 0
    /\ dbMutex = FALSE
    /\ csv = [pc |-> "idle", file |-> "", idx |-> 0]
    /\ exported = [count |-> 0, records |-> <<>>, store |-> <<>>]
    /\ loadLog = <<>>
    /\ csvErr = "none"
    /\ loads = 0
    /\ reply = NoReply

NextStore ==
    \/ \E article \in TestArticles : CallInsertArticle(article)
    \/ ClearAllArticlesForTest
    \/ Tick
    \/ QueryThreatScore
    \/ QueryArticleCount

SpecStore == InitStore /\ [][NextStore]_vars

(***************************************************************************)
(* The scorer and the classifier on their own: calls of calculateRank and  *)
(* getCategoryForSource with given arguments.                              *)
(***************************************************************************)
RankTitles ==
    { "", "Critical zero-day exploit found", "Attack after attack", "AI breakthrough",
      "Weather" }
RankDescriptions ==
    { "", "Active attack with ransomware attack confirmed.", "Data privacy risk",
      "News update", "Patch now: security advisory" }
RankCategories == { "Cybersecurity", "Tech", "Defense", "General", "" }

RankArticles ==
    { [title |-> t, description |-> d, category |-> c] :
        t \in RankTitles, d \in RankDescriptions, c \in RankCategories }

\* rank := calculateRank(article)
CallCalculateRank(article) ==
    /\ reply' = [op |-> "calculateRank", article |-> article, rank |-> calculateRank(article)]
    /\ UNCHANGED << articles, insertErr, now, localOff, db, main, ticks, pipelineVars, byPipeline,
                    submitted, clears, csvVars >>

ListedSources == cybersecuritySources \cup techSources \cup defenseSources

\* the source URLs given to the classifier: the configured feeds, the
\* listed ones, the test's unknown one, the empty string, and every listed
\* one with its last character dropped, with one character more, and with
\* its first character in upper case
SourceInputs ==
    { RssSources[i] : i \in 1..Len(RssSources) }
        \cup ListedSources
        \cup { "", "http://example.com/feed" }
        \cup { SubSeq(src, 1, Len(src) - 1) : src \in ListedSources }
        \cup { src \o "x" : src \in ListedSources }
        \cup { "H" \o SubSeq(src, 2, Len(src)) : src \in ListedSources }

\* category := getCategoryForSource(sourceURL)
CallGetCategoryForSource(sourceURL) ==
    /\ reply' = [op |-> "getCategoryForSource", sourceURL |-> sourceURL,
                 category |-> getCategoryForSource(sourceURL)]
    /\ UNCHANGED << articles, insertErr, now, localOff, db, main, ticks, pipelineVars, byPipeline,
                    submitted, clears, csvVars >>

NextFunctions ==
    \/ \E article \in RankArticles : CallCalculateRank(article)
    \/ \E sourceURL \in SourceInputs : CallGetCategoryForSource(sourceURL)

SpecFunctions == Init /\ [][NextFunctions]_vars

(***************************************************************************)
(* LoadArticlesFromCSV called by a sequential caller, as the tests call it: *)
(* on a store that is empty or holds an article of the pipeline, with each  *)
(* of the files, twice, with ClearAllArticlesForTest between calls.  Each   *)
(* call is logged with the store before and after it.                       *)
(***************************************************************************)
MaxCsvLoads == 2
MaxExports == 1

CsvFilePaths ==
    { "articles.csv", "invalid_articles.csv", "mixed.csv", "short_header.csv", "empty.csv",
      "export.csv", "/nonexistent/path/to/file.csv" }

\* the export's record of an article: the columns in the fixed order,
\* PublishedAt as RFC3339
ExportRecord(article) ==
    << article.title, article.description, article.imageUrl, article.url, article.sourceUrl,
       FormatRFC3339(article.publishedAt), Itoa(article.rank), article.category >>

\* the export of the full store: the header row, then a row per article
ExportCSV ==
    /\ exported.count < MaxExports
    /\ LET rows == GetAllArticlesStream(articles)
       IN  exported' = [count |-> exported.count + 1,
                        records |-> << expectedHeaders >>
                                      \o [k \in 1..Len(rows) |-> ExportRecord(rows[k])],
                        store |-> articles]
    /\ reply' = NoReply
    /\ UNCHANGED << articles, insertErr, now, localOff, db, main, ticks, pipelineVars, byPipeline,
                    submitted, clears, dbMutex, csv, csvErr, loads, loadLog >>

\* the article the pipeline builds from the item with no date of its own
PipelineArticle ==
    BuildArticle(RssSources[8],
                 [items |-> << ItemDigits, ItemGerman, ItemAI >>, publishedParsed |-> <<>>],
                 ItemAI)

\* the article the pipeline builds with its feed's date, in the zone +02:00
DatedArticle ==
    BuildArticle(RssSources[23],
                 [items |-> << ItemReport >>, publishedParsed |-> << FeedTime >>],
                 ItemReport)

StartStores == { <<>>, << PipelineArticle >>, << DatedArticle, PipelineArticle >> }

LogCall(filePath) ==
    loadLog' = Append(loadLog, [file |-> filePath, before |-> articles, after |-> <<>>,
                                err |-> "none", done |-> FALSE])

LogFailedCall(filePath) ==
    loadLog' = Append(loadLog, [file |-> filePath, before |-> articles, after |-> articles',
                                err |-> csvErr', done |-> TRUE])

LogReturn ==
    loadLog' = [loadLog EXCEPT ![Len(loadLog)] =
                   [@ EXCEPT !.after = articles', !.err = csvErr', !.done = TRUE]]

InitCsv ==
    /\ now = StartTime
    /\ localOff = 0
    /\ db = "open"
    /\ main = NoMain
    /\ articles \in StartStores
    /\ byPipeline = { articles[i].url : i \in 1..Len(articles) }
    /\ submitted = { articles[i].url : i \in 1..Len(articles) }
    /\ insertErr = "none"
    /\ ticks = 0
    /\ runs = 0
    /\ runPc = [r \in Runs |-> "idle"]
    /\ worker = [r \in Runs |-> [w \in Workers |->
                    [pc |-> "idle", feed |-> NoFeed, idx |-> 1, failed |-> FALSE]]]
    /\ articleChan = [r \in Runs |-> <<>>]
    /\ closed = [r \in Runs |-> FALSE]
    /\ writer = [r \in Runs |-> [pc |-> "none", article |-> <<>>]]
    /\ sent = [r \in Runs |-> <<>>]
    /\ inserted = [r \in Runs |-> <<>>]
    /\ clears = 0
    /\ dbMutex = FALSE
    /\ csv = [pc |-> "idle", file |-> "", idx |-> 0]
    /\ exported = [count |-> 0, records |-> <<>>, store |-> <<>>]
    /\ loadLog = <<>>
    /\ csvErr = "none"
    /\ loads = 0
    /\ reply = NoReply

NextCsv ==
    \/ \E filePath \in CsvFilePaths :
          loads < MaxCsvLoads /\ LoadFail(filePath) /\ LogFailedCall(filePath)
    \/ \E filePath \in CsvFilePaths :
          loads < MaxCsvLoads /\ LoadBegin(filePath) /\ LogCall(filePath)
    \/ LoadSkipRecord /\ UNCHANGED loadLog
    \/ LoadInsertRecord /\ UNCHANGED loadLog
    \/ LoadEnd /\ LogReturn
    \/ csv.pc = "idle" /\ ClearAllArticlesForTest
    \/ csv.pc = "idle" /\ loads = 0 /\ ExportCSV

SpecCsv == InitCsv /\ [][NextCsv]_vars

(***************************************************************************)
(* The queries from the start of the process: before InitDB the package's  *)
(* db is nil; after it the store is filled by InsertArticle.  A call that  *)
(* panics returns nothing, and nothing runs after it.                      *)
(***************************************************************************)
\* InitDB(dataSourceName) succeeds
InitDB ==
    /\ db = "nil"
    /\ db' = "open"
    /\ reply' = NoReply
    /\ UNCHANGED << articles, insertErr, now, localOff, main, ticks, pipelineVars, byPipeline,
                    submitted, clears, csvVars >>

SourceFilters == { "", "all", RssSources[8] }
CategoryFilters == { "all", "Cybersecurity" }
SearchFilters == { "", "NEWS", "T_" }
Limits == { 0, 2 }
SortBys == { "", "rank" }
DateFilters == { ZeroTime, AddSeconds(StartNow, 0 - 4 * Hour) }

\* the articles in the store when it is queried: two the pipeline built and
\* one inserted directly, published exactly four hours before the start
QueriedArticles ==
    { PipelineArticle, DatedArticle,
      TestArticle("t4", "u4", AddSeconds(StartNow, 0 - 4 * Hour), 2) }

InitQuery ==
    /\ now = StartTime
    /\ localOff = 0
    /\ db = "nil"
    /\ main = NoMain
    /\ articles = <<>>
    /\ byPipeline = {}
    /\ submitted = {}
    /\ insertErr = "none"
    /\ ticks = 0
    /\ runs = 0
    /\ runPc = [r \in Runs |-> "idle"]
    /\ worker = [r \in Runs |-> [w \in Workers |->
                    [pc |-> "idle", feed |-> NoFeed, idx |-> 1, failed |-> FALSE]]]
    /\ articleChan = [r \in Runs |-> <<>>]
    /\ closed = [r \in Runs |-> FALSE]
    /\ writer = [r \in Runs |-> [pc |-> "none", article |-> <<>>]]
    /\ sent = [r \in Runs |-> <<>>]
    /\ inserted = [r \in Runs |-> <<>>]
    /\ clears = 0
    /\ dbMutex = FALSE
    /\ csv = [pc |-> "idle", file |-> "", idx |-> 0]
    /\ exported = [count |-> 0, records |-> <<>>, store |-> <<>>]
    /\ loadLog = <<>>
    /\ csvErr = "none"
    /\ loads = 0
    /\ reply = NoReply

NextQuery ==
    \/ ~Panicked /\ InitDB
    \/ \E article \in QueriedArticles :
          ~Panicked /\ db = "open" /\ Len(articles) < MaxStored /\ CallInsertArticle(article)
    \/ \E sourceFilter \in SourceFilters, categoryFilter \in CategoryFilters,
          searchFilter \in SearchFilters, limit \in Limits, startDate \in DateFilters,
          endDate \in DateFilters, sortBy \in SortBys :
            ~Panicked /\ QueryArticles(sourceFilter, categoryFilter, searchFilter, limit,
                                       startDate, endDate, sortBy)
    \/ ~Panicked /\ QueryAllArticlesStream
    \/ ~Panicked /\ QueryThreatScore
    \/ ~Panicked /\ QueryArticleCount

SpecQuery == InitQuery /\ [][NextQuery]_vars

(***************************************************************************)
(* The articles the workers build, in the store, and the threat score over *)
(* them: the same items under a source of each category.                   *)
(***************************************************************************)
ItemBreach ==
    [title |-> "Critical zero-day exploit found",
     description |-> "News update: <b>threat report</b>",
     link |-> "https://b.example/1", image |-> <<>>, publishedParsed |-> <<>>]
ItemBriefing ==
    [title |-> "AI breakthrough", description |-> "Weekly briefing",
     link |-> "https://b.example/2", image |-> <<>>, publishedParsed |-> <<>>]

ScoredItems == { ItemBreach, ItemBriefing }

\* a source of RssSources that getCategoryForSource classifies as
\* Cybersecurity, one as Defense and one as General
ScoredSources == { RssSources[1], RssSources[23], RssSources[12] }

\* the scorer's inputs: the items' texts as the feed gives them and as the
\* worker stores them, under every category
ScoredArticles ==
    UNION { { [title |-> item.title, description |-> description, category |-> category] :
                description \in { item.description, Sanitize(item.description) },
                category \in RankCategories } :
            item \in ScoredItems }

\* a worker builds the article of an accepted item of the source's feed and
\* the writer passes it to InsertArticle
InsertBuiltArticle(source, item) ==
    /\ Accepted(item)
    /\ CallInsertArticle(BuildArticle(source,
                                      [items |-> << item >>, publishedParsed |-> <<>>],
                                      item))

NextScore ==
    \/ \E source \in ScoredSources, item \in ScoredItems : InsertBuiltArticle(source, item)
    \/ \E article \in ScoredArticles : CallCalculateRank(article)
    \/ QueryThreatScore

SpecScore == InitStore /\ [][NextScore]_vars

(***************************************************************************)
(* func main: InitDB, the restore from ./articles.csv, StartCachingJob,    *)
(* then the HTTP server.  The database file ./news.db keeps the articles   *)
(* of the process before; the ticker goroutine calls fetchAndCacheNews     *)
(* again once StartCachingJob's own call has returned.                     *)
(***************************************************************************)
\* the files that can stand at ./articles.csv; "" when there is none
BackupFiles == { "", "articles.csv", "invalid_articles.csv" }

\* the process exits in log.Fatalf when InitDB returns an error: sql.Open
\* failed and db is nil, or a db.Exec failed and db is set
MainInitDBFails ==
    /\ main.pc = "InitDB"
    /\ \E initErr \in { "failed to open database", "failed to create articles table" } :
          /\ main' = [main EXCEPT !.pc = "exited", !.initErr = initErr]
          /\ db' = IF initErr = "failed to open database" THEN "nil" ELSE "open"
    /\ reply' = NoReply
    /\ UNCHANGED << articles, insertErr, now, localOff, ticks, pipelineVars, byPipeline,
                    submitted, clears, csvVars >>

\* db.InitDB("./news.db") returns nil
MainInitDB ==
    /\ main.pc = "InitDB"
    /\ main' = [main EXCEPT !.pc = "GetArticleCount", !.initErr = "nil"]
    /\ db' = "open"
    /\ reply' = NoReply
    /\ UNCHANGED << articles, insertErr, now, localOff, ticks, pipelineVars, byPipeline,
                    submitted, clears, csvVars >>

\* a startup that goes on to the backup file whatever count and err are
MainGetArticleCountUnchecked(failed) ==
    /\ main.pc = "GetArticleCount"
    /\ LET count == IF db = "nil" \/ failed THEN 0 ELSE GetArticleCount(articles)
           err == IF db = "nil" THEN "database connection is nil"
                  ELSE IF failed THEN "sql: Scan error" ELSE "nil"
       IN  main' = [main EXCEPT !.count = count, !.countErr = err, !.pc = "Stat"]
    /\ reply' = NoReply
    /\ UNCHANGED << articles, insertErr, now, localOff, db, ticks, pipelineVars, byPipeline,
                    submitted, clears, csvVars >>

\* count, err := db.GetArticleCount(), and the branch main takes on them;
\* failed says that the query's Scan returns an error
MainGetArticleCount(failed) ==
    /\ main.pc = "GetArticleCount"
    /\ LET count == IF db = "nil" \/ failed THEN 0 ELSE GetArticleCount(articles)
           err == IF db = "nil" THEN "database connection is nil"
                  ELSE IF failed THEN "sql: Scan error" ELSE "nil"
       IN  main' = [main EXCEPT !.count = count, !.countErr = err,
                                !.pc = IF err # "nil" THEN "StartCachingJob"
                                       ELSE IF count = 0 THEN "Stat"
                                       ELSE "StartCachingJob"]
    /\ reply' = NoReply
    /\ UNCHANGED << articles, insertErr, now, localOff, db, ticks, pipelineVars, byPipeline,
                    submitted, clears, csvVars >>

\* os.Stat(csvPath)
MainStat ==
    /\ main.pc = "Stat"
    /\ main' = [main EXCEPT !.pc = IF main.backup # "" THEN "LoadArticlesFromCSV"
                                   ELSE "StartCachingJob"]
    /\ reply' = NoReply
    /\ UNCHANGED << articles, insertErr, now, localOff, db, ticks, pipelineVars, byPipeline,
                    submitted, clears, csvVars >>

\* db.LoadArticlesFromCSV(csvPath) has returned, with an error or without
MainLoadReturned ==
    /\ main.pc = "LoadArticlesFromCSV"
    /\ loads > 0
    /\ csv.pc = "idle"
    /\ main' = [main EXCEPT !.pc = "StartCachingJob"]
    /\ reply' = NoReply
    /\ UNCHANGED << articles, insertErr, now, localOff, db, ticks, pipelineVars, byPipeline,
                    submitted, clears, csvVars >>

\* db.StartCachingJob(RssSources) has returned: its call of
\* fetchAndCacheNews returned and the ticker goroutine is started; main
\* goes on to http.ListenAndServe
MainListenAndServe ==
    /\ main.pc = "StartCachingJob"
    /\ runs > 0
    /\ runPc[1] = "returned"
    /\ main' = [main EXCEPT !.pc = "ListenAndServe"]
    /\ reply' = NoReply
    /\ UNCHANGED << articles, insertErr, now, localOff, db, ticks, pipelineVars, byPipeline,
                    submitted, clears, csvVars >>

InitMain ==
    /\ now = StartTime
    /\ localOff = 0
    /\ db = "nil"
    /\ main \in { [pc |-> "InitDB", initErr |-> "none", count |-> 0, countErr |-> "none",
                   backup |-> backup] : backup \in BackupFiles }
    /\ articles \in StartStores
    /\ byPipeline = {}
    /\ submitted = { articles[i].url : i \in 1..Len(articles) }
    /\ insertErr = "none"
    /\ ticks = 0
    /\ runs = 0
    /\ runPc = [r \in Runs |-> "idle"]
    /\ worker = [r \in Runs |-> [w \in Workers |->
                    [pc |-> "idle", feed |-> NoFeed, idx |-> 1, failed |-> FALSE]]]
    /\ articleChan = [r \in Runs |-> <<>>]
    /\ closed = [r \in Runs |-> FALSE]
    /\ writer = [r \in Runs |-> [pc |-> "none", article |-> <<>>]]
    /\ sent = [r \in Runs |-> <<>>]
    /\ inserted = [r \in Runs |-> <<>>]
    /\ clears = 0
    /\ dbMutex = FALSE
    /\ csv = [pc |-> "idle", file |-> "", idx |-> 0]
    /\ exported = [count |-> 0, records |-> <<>>, store |-> <<>>]
    /\ loadLog = <<>>
    /\ csvErr = "none"
    /\ loads = 0
    /\ reply = NoReply

\* the position of main at which fetchAndCacheNews can be called: inside
\* StartCachingJob, and from the ticker goroutine afterwards
CachingJobStarted == main.pc \in { "StartCachingJob", "ListenAndServe" }

NextMain ==
    \/ MainInitDBFails
    \/ MainInitDB
    \/ \E failed \in BOOLEAN : MainGetArticleCount(failed)
    \/ MainStat
    \/ main.pc = "LoadArticlesFromCSV" /\ loads = 0
          /\ LoadFail(main.backup) /\ UNCHANGED << main, loadLog >>
    \/ main.pc = "LoadArticlesFromCSV" /\ loads = 0
          /\ LoadBegin(main.backup) /\ UNCHANGED << main, loadLog >>
    \/ LoadSkipRecord /\ UNCHANGED loadLog
    \/ LoadInsertRecord /\ UNCHANGED loadLog
    \/ LoadEnd /\ UNCHANGED loadLog
    \/ MainLoadReturned
    \/ \E r \in Runs : CachingJobStarted /\ RunStart(r)
    \/ \E r \in Runs, w \in Workers : WorkerFetchFail(r, w)
    \/ \E r \in Runs, w \in Workers : WorkerFetchOk(r, w)
    \/ \E r \in Runs, w \in Workers : WorkerSkip(r, w)
    \/ \E r \in Runs, w \in Workers : WorkerSend(r, w)
    \/ \E r \in Runs : RunFinish(r)
    \/ \E r \in Runs : WriterRecv(r)
    \/ \E r \in Runs : WriterInsert(r)
    \/ \E r \in Runs : WriterExit(r)
    \/ MainListenAndServe

SpecMain == InitMain /\ [][NextMain]_vars

(***************************************************************************)
(* Properties of the pipeline run.                                         *)
(***************************************************************************)
\* C1: a run of fetchAndCacheNews that has reported completion and returned
\* has none of its articles still on the channel or in the writer's hands:
\* everything its workers sent has been passed to InsertArticle.
C1_ReturnedRunIsDrained ==
    \A r \in Runs :
        runPc[r] = "returned" =>
            /\ articleChan[r] = <<>>
            /\ writer[r].pc # "insert"
            /\ inserted[r] = sent[r]

\* the writer goroutines that can still call InsertArticle: in a call, or
\* waiting on a channel that holds an article or is still open
LiveWriters ==
    { r \in Runs :
        \/ writer[r].pc = "insert"
        \/ writer[r].pc = "recv" /\ (articleChan[r] # <<>> \/ ~closed[r]) }

\* C2: at every moment at most one writer goroutine exists, and so at most
\* one pipeline call of InsertArticle is in progress.
C2_AtMostOneWriter ==
    /\ Cardinality(LiveWriters) <= 1
    /\ Cardinality({ r \in Runs : writer[r].pc = "insert" }) <= 1

(***************************************************************************)
(* Properties of the store.                                                *)
(***************************************************************************)
\* the articles run r's writer has passed to InsertArticle that have url
InsertedWithURL(r, url) ==
    { i \in 1..Len(inserted[r]) : inserted[r][i].url = url }

\* C3: the store holds at most one article per URL, whatever the writers
\* and CSV loads have done and in whatever order, and every URL that has
\* been submitted (since the last clear) is stored, exactly once.
C3_OneArticlePerURL ==
    /\ \A i, j \in 1..Len(articles) : articles[i].url = articles[j].url => i = j
    /\ \A url \in submitted : Cardinality({ i \in 1..Len(articles) : articles[i].url = url }) = 1
    /\ \A i \in 1..Len(articles) : articles[i].url \in submitted

\* C3 witness: one run's writer has inserted two different articles with the
\* same URL, the CSV load has inserted its rows with that URL and with the
\* URL its file holds twice, and the store holds both URLs.
C3_SameURLSubmittedSeveralTimes ==
    /\ \E r \in Runs : \E i, j \in InsertedWithURL(r, "https://a.example/1") :
          inserted[r][i] # inserted[r][j]
    /\ csvErr = "nil"
    /\ clears = 0
    /\ HasURL(articles, "https://a.example/1")
    /\ HasURL(articles, "https://example.com/1")

\* C4: a call of InsertArticle with an article whose URL is already stored
\* returns nil and leaves the table exactly as it was: the same rows, the
\* same count, every field of the stored article as before.
C4_DuplicateInsertIsNoOp ==
    [][ \A r \in Runs :
          ( /\ Len(inserted'[r]) = Len(inserted[r]) + 1
            /\ HasURL(articles, inserted'[r][Len(inserted'[r])].url) )
          => /\ articles' = articles
             /\ insertErr' = "nil" ]_vars

\* C4 witness: a writer has called InsertArticle with an article whose URL
\* was stored already with other fields, and the call returned nil.
C4_DuplicateWasInserted ==
    /\ insertErr = "nil"
    /\ \E r \in Runs : \E k \in 1..Len(inserted[r]) : \E i \in 1..Len(articles) :
          /\ k = Len(inserted[r])
          /\ writer[r].pc = "recv"
          /\ articles[i].url = inserted[r][k].url
          /\ articles[i].title # inserted[r][k].title
          /\ articles[i].rank # inserted[r][k].rank

\* the rows LoadArticlesFromCSV can insert from the files there are
CsvRows ==
    UNION { { RecordRow(FileRecords(filePath)[k]) :
                k \in { n \in 2..Len(FileRecords(filePath)) :
                          RecordOk(FileRecords(filePath)[n]) } } :
            filePath \in { f \in FilePaths : HeaderError(f) = "nil" } }

\* C5 as stated: every stored article's rank is calculateRank of its stored
\* category, title and description, whichever writer stored it.
C5_RankIsScorerOutput ==
    \A i \in 1..Len(articles) : articles[i].rank = calculateRank(articles[i])

\* C5, amended: every stored article that the ingestion pipeline wrote has
\* the rank calculateRank gives for its stored category, title and
\* description; an article that CSV restore wrote is a row of the file as
\* it stands there, with the rank of its Rank column.
C5_PipelineRankIsScorerOutput ==
    \A i \in 1..Len(articles) :
        IF articles[i].url \in byPipeline
        THEN articles[i].rank = calculateRank(articles[i])
        ELSE articles[i] \in CsvRows

\* C5 witness: the store holds an article of the pipeline whose rank counts
\* a keyword that only the stripped description contains, and a restored
\* article whose rank is not what calculateRank gives.
C5_PipelineAndRestoredRanksStored ==
    /\ \E i \in 1..Len(articles) :
          /\ articles[i].url \in byPipeline
          /\ articles[i].rank = 16
          /\ Contains(ToLower(articles[i].description), "patch now")
    /\ \E j \in 1..Len(articles) :
          /\ articles[j].url \notin byPipeline
          /\ articles[j].rank # calculateRank(articles[j])

\* C6 as stated: every stored article's category is one of the four labels
\* and is getCategoryForSource of its stored source URL, whichever writer
\* stored it.
C6_CategoryIsClassifierOutput ==
    \A i \in 1..Len(articles) :
        /\ articles[i].category \in Categories
        /\ articles[i].category = getCategoryForSource(articles[i].sourceUrl)

\* C6, amended: every stored article that the ingestion pipeline wrote has a
\* category among the four labels, the one getCategoryForSource gives for its
\* stored source URL; an article that CSV restore wrote has the text of its
\* row's Category column.
C6_PipelineCategoryIsClassifierOutput ==
    \A i \in 1..Len(articles) :
        IF articles[i].url \in byPipeline
        THEN /\ articles[i].category \in Categories
             /\ articles[i].category = getCategoryForSource(articles[i].sourceUrl)
        ELSE \E row \in CsvRows : row.url = articles[i].url /\ row.category = articles[i].category

\* C6 witness: the store holds an article of the pipeline from a source of
\* the cybersecurity list, and a restored article whose category is not the
\* one its source URL maps to.
C6_PipelineAndRestoredCategoriesStored ==
    /\ \E i \in 1..Len(articles) :
          /\ articles[i].url \in byPipeline
          /\ articles[i].sourceUrl \in cybersecuritySources
          /\ articles[i].category = "Cybersecurity"
    /\ \E j \in 1..Len(articles) :
          /\ articles[j].url \notin byPipeline
          /\ articles[j].category # getCategoryForSource(articles[j].sourceUrl)

\* C7: every step other than ClearAllArticlesForTest keeps every stored
\* article, in its place and with all its fields, so the stored URLs only
\* grow.
C7_StoredArticlesKept ==
    [][ clears' = clears =>
          /\ Len(articles') >= Len(articles)
          /\ \A i \in 1..Len(articles) : articles'[i] = articles[i] ]_vars

\* C7 witness: with no clear so far, a run has returned after its writer
\* inserted two articles, a CSV load has finished, and GetArticleCount is
\* answering with the articles of both stored.
C7_StoreGrewUnderAllWriters ==
    /\ clears = 0
    /\ Len(articles) >= 2
    /\ \E i \in 1..Len(articles) : articles[i].url \in byPipeline
    /\ \E i \in 1..Len(articles) : articles[i].url \notin byPipeline
    /\ csvErr = "nil"
    /\ \E r \in Runs : runPc[r] = "returned" /\ Len(inserted[r]) >= 2
    /\ reply.op = "GetArticleCount"

\* the articles of a run that the worker of source w sent, in order
SentBy(r, w) == SelectSeq(sent[r], LAMBDA a : a.sourceUrl = rssSources[w])

\* the items of a feed that pass the language filter, in order
AcceptedItems(feed) == SelectSeq(feed.items, Accepted)

SameItems(sentArticles, items) ==
    /\ Len(sentArticles) = Len(items)
    /\ \A k \in 1..Len(items) :
          /\ sentArticles[k].title = items[k].title
          /\ sentArticles[k].url = items[k].link

\* C8: a worker whose fetch failed is finished and has sent nothing; once
\* every worker of a run is finished, failed or not, the run can return; and
\* in a returned run every worker whose fetch succeeded has sent exactly the
\* accepted items of its feed, in order, whichever other workers failed.
C8_FetchFailureIsIsolated ==
    \A r \in Runs :
        /\ \A w \in Workers :
              worker[r][w].failed =>
                  /\ worker[r][w].pc = "done"
                  /\ SentBy(r, w) = <<>>
        /\ (runPc[r] = "wait" /\ \A w \in Workers : worker[r][w].failed \/ worker[r][w].pc = "done")
              => ENABLED RunFinish(r)
        /\ runPc[r] = "returned" =>
              \A w \in Workers :
                  ~worker[r][w].failed =>
                      SameItems(SentBy(r, w), AcceptedItems(worker[r][w].feed))

\* C8 witness: one run has returned with the first source failed and the
\* second source's accepted item sent, another has returned with every
\* source failed and nothing sent.
C8_RunsReturnedWithFailedSources ==
    /\ \E r \in Runs :
          /\ runPc[r] = "returned"
          /\ worker[r][1].failed
          /\ ~worker[r][2].failed
          /\ Len(SentBy(r, 2)) = 1
    /\ \E r \in Runs :
          /\ runPc[r] = "returned"
          /\ \A w \in Workers : worker[r][w].failed
          /\ sent[r] = <<>>

\* the items the feed of source w can deliver
ItemsOfSource(w) ==
    UNION { { feed.items[k] : k \in 1..Len(feed.items) } : feed \in FeedsOf(rssSources[w]) }

DetectedEnglish(item) ==
    DetectLanguageOf(item.title \o " " \o item.description) = "English"

FromEnglishItem(a) ==
    \E w \in Workers : \E item \in ItemsOfSource(w) :
        /\ a.sourceUrl = rssSources[w]
        /\ a.title = item.title
        /\ a.url = item.link
        /\ DetectedEnglish(item)

\* C9: every article sent on the queue, waiting in it, in the writer's hands
\* or stored by the pipeline comes from a feed item whose title + " " +
\* description the detector identifies as English, so an item detected as
\* another language or with no confident result reaches neither; and a
\* worker that went through its feed has sent every English item of it,
\* those after a rejected item included.
C9_OnlyEnglishItemsSubmitted ==
    /\ \A r \in Runs :
          /\ \A k \in 1..Len(sent[r]) : FromEnglishItem(sent[r][k])
          /\ \A k \in 1..Len(articleChan[r]) : FromEnglishItem(articleChan[r][k])
          /\ writer[r].article # <<>> => FromEnglishItem(writer[r].article[1])
          /\ \A w \in Workers :
                (worker[r][w].pc = "done" /\ ~worker[r][w].failed) =>
                    SameItems(SentBy(r, w),
                              SelectSeq(worker[r][w].feed.items, DetectedEnglish))
    /\ \A i \in 1..Len(articles) :
          articles[i].url \in byPipeline => FromEnglishItem(articles[i])

\* C9 witness: the worker of the second source is through its feed, whose
\* first item has no confident detection and whose second is German, and the
\* third item, in English, is the only one it sent and is stored.
C9_EnglishItemAfterRejectedOnesStored ==
    \E r \in Runs :
        /\ worker[r][2].pc = "done"
        /\ worker[r][2].feed.items = << ItemDigits, ItemGerman, ItemAI >>
        /\ DetectLanguageOf(ItemDigits.title \o " " \o ItemDigits.description) = "Unknown"
        /\ DetectLanguageOf(ItemGerman.title \o " " \o ItemGerman.description) = "German"
        /\ Len(SentBy(r, 2)) = 1
        /\ SentBy(r, 2)[1].title = ItemAI.title
        /\ \E i \in 1..Len(articles) :
              articles[i].title = ItemAI.title /\ articles[i].url \in byPipeline

(***************************************************************************)
(* Properties of the threat score.                                         *)
(***************************************************************************)
\* the stored articles published at now - 24h or later
Last24Hours ==
    { i \in 1..Len(articles) :
        NotBefore(articles[i].publishedAt, AddSeconds(TimeNow, 0 - 24 * Hour)) }

\* C10: what GetTodayThreatScore returns counts exactly the stored articles
\* published at now - 24h or later: those of rank below 2 as low, of rank 2
\* to 4 as medium, of rank 5 or more as high, and all of them as
\* totalArticles, which is the sum of the three.
C10_ScoreCountsLast24Hours ==
    reply.op = "GetTodayThreatScore" =>
        /\ reply.score.totalArticles = Cardinality(Last24Hours)
        /\ reply.score.lowRankCount =
              Cardinality({ i \in Last24Hours : articles[i].rank < 2 })
        /\ reply.score.mediumRankCount =
              Cardinality({ i \in Last24Hours : articles[i].rank >= 2 /\ articles[i].rank < 5 })
        /\ reply.score.highRankCount =
              Cardinality({ i \in Last24Hours : articles[i].rank >= 5 })
        /\ reply.score.totalArticles =
              reply.score.lowRankCount + reply.score.mediumRankCount
                  + reply.score.highRankCount

Occurrences(content, keyword) ==
    { i \in 1..Len(content) :
        i + Len(keyword) - 1 <= Len(content)
            /\ SubSeq(content, i, i + Len(keyword) - 1) = keyword }

\* the keywords of the category's table that occur in the lower-cased
\* title + " " + description
MatchedKeywords(article) ==
    LET content == ToLower(article.title \o " " \o article.description)
    IN  { k \in KeywordsFor(article.category) : Occurrences(content, k[1]) # {} }

\* the totals that adding the weights of kws to acc can give, over every
\* order of visiting them
RECURSIVE TotalsInAnyOrder(_, _)
TotalsInAnyOrder(kws, acc) ==
    IF kws = {} THEN { acc }
    ELSE UNION { TotalsInAnyOrder(kws \ { k }, acc + k[2]) : k \in kws }

\* C12: calculateRank returns the sum of the weights of exactly the keywords
\* of the category's table that occur in lowercase(title + " " +
\* description), each once however often it occurs and overlapping ones
\* each; every order of visiting the keywords gives that result; and it is 0
\* exactly when no keyword occurs.
C12_RankIsSumOfMatchedWeights ==
    reply.op = "calculateRank" =>
        LET matched == MatchedKeywords(reply.article)
        IN  /\ TotalsInAnyOrder(matched, 0) = { reply.rank }
            /\ reply.rank = 0 <=> matched = {}

\* C12 witness: the test's first article has been ranked 24; it matches
\* "ransomware attack", "ransomware" and "attack", the last of them twice.
C12_OverlappingAndRepeatedKeywordsRanked ==
    /\ reply.op = "calculateRank"
    /\ reply.article.category = "Cybersecurity"
    /\ reply.article.title = "Critical zero-day exploit found"
    /\ reply.rank = 24
    /\ { <<"ransomware attack", 5>>, <<"ransomware", 3>>, <<"attack", 3>> }
          \subseteq MatchedKeywords(reply.article)
    /\ Cardinality(Occurrences(ToLower(reply.article.title \o " " \o reply.article.description),
                               "attack")) = 2

\* C13 as stated: a text that matches at least as many keywords of the
\* category's table as another text ranks at least as high.
C13_RankMonotoneInMatchCount ==
    reply.op = "calculateRank" =>
        \A other \in RankArticles :
            (/\ other.category = reply.article.category
             /\ Cardinality(MatchedKeywords(reply.article))
                   >= Cardinality(MatchedKeywords(other)))
                => reply.rank >= calculateRank(other)

\* C13, amended: a text that matches every keyword of the category's table
\* that another text matches ranks at least as high as the other.
C13_RankMonotoneInMatchedSet ==
    reply.op = "calculateRank" =>
        \A other \in RankArticles :
            (/\ other.category = reply.article.category
             /\ MatchedKeywords(other) \subseteq MatchedKeywords(reply.article))
                => reply.rank >= calculateRank(other)

\* C13 witness: the article ranked matches strictly more keywords than
\* another article of its category that matches some, and ranks higher.
C13_MoreKeywordsRankedHigher ==
    /\ reply.op = "calculateRank"
    /\ \E other \in RankArticles :
          /\ other.category = reply.article.category
          /\ MatchedKeywords(other) # {}
          /\ MatchedKeywords(other) \subseteq MatchedKeywords(reply.article)
          /\ MatchedKeywords(other) # MatchedKeywords(reply.article)
          /\ reply.rank > calculateRank(other)

\* C14: the three source lists are pairwise disjoint; getCategoryForSource
\* gives a URL that is a member of a list that list's label, gives every
\* other input "General" (the empty string and the listed URLs changed in
\* one character among them), always answers with one of the four labels,
\* and each of the four is the answer for some input.
C14_ClassifierIsTotalOntoLabels ==
    /\ cybersecuritySources \cap techSources = {}
    /\ cybersecuritySources \cap defenseSources = {}
    /\ techSources \cap defenseSources = {}
    /\ reply.op = "getCategoryForSource" =>
          /\ reply.category \in { "Cybersecurity", "Tech", "Defense", "General" }
          /\ reply.category = "Cybersecurity" <=>
                (\E src \in cybersecuritySources : src = reply.sourceURL)
          /\ reply.category = "Tech" <=> (\E src \in techSources : src = reply.sourceURL)
          /\ reply.category = "Defense" <=> (\E src \in defenseSources : src = reply.sourceURL)
          /\ reply.category = "General" <=>
                (\A src \in ListedSources : src # reply.sourceURL)
    /\ \A label \in { "Cybersecurity", "Tech", "Defense", "General" } :
          \E sourceURL \in SourceInputs : getCategoryForSource(sourceURL) = label

\* C14 witness: the classifier has answered "General" for a listed defense
\* URL with one more character at its end.
C14_NearMatchIsGeneral ==
    /\ reply.op = "getCategoryForSource"
    /\ reply.sourceURL = "https://www.defenseone.com/rss/all/x"
    /\ reply.sourceURL \notin ListedSources
    /\ reply.category = "General"

(***************************************************************************)
(* Properties of LoadArticlesFromCSV.                                      *)
(***************************************************************************)
\* the file cannot be opened, has no header row, or its header row has not
\* 8 columns
HeaderRejected(filePath) ==
    \/ filePath \notin ExistingFiles
    \/ FileRecords(filePath) = <<>>
    \/ Len(FileRecords(filePath)[1]) # 8

\* C15: a call of LoadArticlesFromCSV with a file that cannot be opened, has
\* no header or has a header of other than 8 columns has returned an error
\* and left the store exactly as it was, and the record loop is never
\* entered for such a file, whatever its data rows are.
C15_BadHeaderRejectsFile ==
    /\ \A k \in 1..Len(loadLog) :
          HeaderRejected(loadLog[k].file) =>
              /\ loadLog[k].done
              /\ loadLog[k].err \notin { "nil", "none" }
              /\ loadLog[k].after = loadLog[k].before
    /\ csv.pc = "rows" => ~HeaderRejected(csv.file)

\* C15 witness: the file with the 7-column header over a well-formed data
\* row was loaded into a store holding an article; the call returned the
\* header error and the store still holds that article only.
C15_ShortHeaderFileRejected ==
    \E k \in 1..Len(loadLog) :
        /\ loadLog[k].file = "short_header.csv"
        /\ RecordOk(FileRecords("short_header.csv")[2])
        /\ loadLog[k].err = "invalid CSV header"
        /\ Len(loadLog[k].before) = 1
        /\ articles = loadLog[k].before

URLsOf(table) == { table[i].url : i \in 1..Len(table) }

\* the data rows of a file that have 8 columns, an RFC3339 timestamp and an
\* integer rank
WellFormedRecords(filePath) ==
    { n \in 2..Len(FileRecords(filePath)) :
        /\ Len(FileRecords(filePath)[n]) = 8
        /\ ParseRFC3339(FileRecords(filePath)[n][6]).ok
        /\ Atoi(FileRecords(filePath)[n][7]).ok }

\* C16: a call of LoadArticlesFromCSV with a file whose header has 8 columns
\* returns nil however many of its data rows are malformed and wherever they
\* stand; the store keeps what it held; the URLs it holds afterwards are
\* those it held and those of the well-formed rows; each added article has
\* the fields of the first well-formed row with its URL; nothing of a
\* malformed row is added.
C16_MalformedRowsSkipped ==
    /\ csv.pc = "idle" => \A k \in 1..Len(loadLog) : loadLog[k].done
    /\ \A k \in 1..Len(loadLog) :
          (loadLog[k].done /\ ~HeaderRejected(loadLog[k].file)) =>
              LET file == FileRecords(loadLog[k].file)
                  before == loadLog[k].before
                  after == loadLog[k].after
                  good == WellFormedRecords(loadLog[k].file)
              IN  /\ loadLog[k].err = "nil"
                  /\ Len(after) >= Len(before)
                  /\ SubSeq(after, 1, Len(before)) = before
                  /\ URLsOf(after) = URLsOf(before) \cup { file[n][4] : n \in good }
                  /\ \A i \in (Len(before) + 1)..Len(after) :
                        \E n \in good :
                            /\ after[i].url = file[n][4]
                            /\ after[i].title = file[n][1]
                            /\ after[i].category = file[n][8]
                            /\ after[i].rank = Atoi(file[n][7]).val
                            /\ \A m \in good : file[m][4] = file[n][4] => m >= n
                  /\ \A n \in (2..Len(file)) \ good :
                        \A i \in (Len(before) + 1)..Len(after) : after[i].title # file[n][1]

\* C16 witness: the file with a short first row, a bad rank in the middle
\* and a bad month at the end was loaded into the empty store and returned
\* nil, and the store holds its two well-formed rows.
C16_MixedFileLoaded ==
    \E k \in 1..Len(loadLog) :
        /\ loadLog[k].file = "mixed.csv"
        /\ loadLog[k].done
        /\ loadLog[k].err = "nil"
        /\ loadLog[k].before = <<>>
        /\ Len(loadLog[k].after) = 2
        /\ loadLog[k].after[1].title = "Mixed A"
        /\ loadLog[k].after[2].title = "Mixed C"
        /\ articles = loadLog[k].after

\* C17: when LoadArticlesFromCSV is called with a file on the store that an
\* earlier call with the same file left, it leaves that store as it is: the
\* same articles with the same fields, and as many.
C17_SecondLoadChangesNothing ==
    \A i \in 1..Len(loadLog) : \A j \in (i + 1)..Len(loadLog) :
        (/\ loadLog[i].done
         /\ loadLog[j].done
         /\ loadLog[j].file = loadLog[i].file
         /\ loadLog[j].before = loadLog[i].after)
            => /\ loadLog[j].after = loadLog[i].after
               /\ loadLog[j].err = loadLog[i].err

\* C17 witness: the test's file, which names one URL twice and one the
\* store held already, was loaded twice in a row into a store that held an
\* article of the pipeline, the second time on the three articles the first
\* call left.
C17_SameFileLoadedTwice ==
    /\ Len(loadLog) = 2
    /\ loadLog[1].file = "articles.csv"
    /\ loadLog[2].file = "articles.csv"
    /\ loadLog[1].before = << PipelineArticle >>
    /\ loadLog[1].done
    /\ loadLog[2].done
    /\ loadLog[2].before = loadLog[1].after
    /\ Len(loadLog[1].after) = 2
    /\ articles = loadLog[2].after

\* two time.Time values are the same instant
SameInstant(a, b) == a.sec = b.sec /\ a.nsec = b.nsec

\* C18: when the file an export wrote has been imported into the empty
\* store, the store holds the URLs the exported store held and no others,
\* and the article of each URL has the rank, the category and the published
\* instant it had in the exported store.
C18_ExportImportRoundTrip ==
    \A k \in 1..Len(loadLog) :
        (/\ loadLog[k].file = "export.csv"
         /\ loadLog[k].done
         /\ loadLog[k].err = "nil"
         /\ loadLog[k].before = <<>>)
            => LET original == exported.store
                   restored == loadLog[k].after
               IN  /\ URLsOf(restored) = URLsOf(original)
                   /\ \A i \in 1..Len(original) : \A j \in 1..Len(restored) :
                         restored[j].url = original[i].url =>
                             /\ restored[j].rank = original[i].rank
                             /\ restored[j].category = original[i].category
                             /\ SameInstant(restored[j].publishedAt, original[i].publishedAt)

(***************************************************************************)
(* Properties of the scheduling.                                           *)
(***************************************************************************)
\* the invocations of fetchAndCacheNews that have started and not returned
RunningInvocations == { r \in Runs : runPc[r] = "wait" }

\* C19: at most one invocation of fetchAndCacheNews is under way at any
\* time: the invocations start in order, the first at startup, and each
\* later one only after the one before it has returned, however many steps
\* that one took.
C19_InvocationsDoNotOverlap ==
    /\ Cardinality(RunningInvocations) <= 1
    /\ \A r \in Runs :
          /\ runPc[r] # "idle" <=> r <= runs
          /\ (r > 1 /\ runPc[r] # "idle") => runPc[r - 1] = "returned"

\* C19 witness: the tick's invocation is under way, a worker of it in its
\* item loop, after the startup invocation has returned.
C19_SecondInvocationAfterFirstReturned ==
    /\ runPc[1] = "returned"
    /\ runPc[2] = "wait"
    /\ \E w \in Workers : worker[2][w].pc = "loop"

(***************************************************************************)
(* Properties of the queries on a nil database.                            *)
(***************************************************************************)
QueryOps == { "GetArticlesFromDB", "GetTodayThreatScore", "GetArticleCount",
              "GetAllArticlesStream" }

\* C20: a query called while db is nil returns to its caller, with an error
\* that is not nil; it does not panic.
C20_NilStoreQueriesReturnError ==
    (db = "nil" /\ reply.op \in QueryOps) =>
        /\ "panic" \notin DOMAIN reply
        /\ "err" \in DOMAIN reply
        /\ reply.err # "nil"

(***************************************************************************)
(* Properties of GetArticlesFromDB.                                        *)
(***************************************************************************)
\* the row passes every filter of the call, as the filters are described:
\* the search string occurs in the title or the description whatever the
\* case, the publication instant lies within the inclusive bounds
SatisfiesFilters(row, call) ==
    /\ (call.sourceFilter # "" /\ call.sourceFilter # "all") =>
          row.sourceUrl = call.sourceFilter
    /\ (call.categoryFilter # "" /\ call.categoryFilter # "all") =>
          row.category = call.categoryFilter
    /\ \/ Contains(ToLower(row.title), ToLower(call.searchFilter))
       \/ Contains(ToLower(row.description), ToLower(call.searchFilter))
    /\ ~IsZero(call.startDate) => NotBefore(row.publishedAt, call.startDate)
    /\ ~IsZero(call.endDate) => NotBefore(call.endDate, row.publishedAt)

\* a comes no later than b in the order the call asks for
InCallOrder(a, b, call) ==
    IF call.sortBy = "rank" THEN a.rank >= b.rank
    ELSE NotBefore(a.publishedAt, b.publishedAt)

\* C21: GetArticlesFromDB returns exactly the stored articles that pass all
\* the filters of the call, by rank descending when sortBy is "rank" and by
\* publication time descending otherwise, cut to the first limit articles of
\* that order when limit > 0.
C21_QueryReturnsFilteredOrderedLimited ==
    (reply.op = "GetArticlesFromDB" /\ reply.err = "nil") =>
        LET call == reply.call
            got == reply.articles
            matching == { i \in 1..Len(articles) : SatisfiesFilters(articles[i], call) }
            returned == { i \in matching : \E k \in 1..Len(got) : got[k] = articles[i] }
        IN  /\ \A k \in 1..Len(got) : \E i \in matching : got[k] = articles[i]
            /\ Len(got) = Cardinality(returned)
            /\ Len(got) = IF call.limit > 0 /\ call.limit < Cardinality(matching)
                          THEN call.limit ELSE Cardinality(matching)
            /\ \A k, l \in 1..Len(got) : k < l => InCallOrder(got[k], got[l], call)
            /\ \A i \in matching \ returned :
                   \A k \in 1..Len(got) : InCallOrder(got[k], articles[i], call)

(***************************************************************************)
(* Properties of the startup.                                              *)
(***************************************************************************)
\* C22: the restore is attempted only with the store initialized, the count
\* read without error and 0, and the backup file there; it has returned when
\* the first ingestion run starts; the first run has returned when the server
\* starts to serve; after a failed InitDB there is no restore, no run and no
\* serving.
C22_StartupOrder ==
    /\ (loads > 0 \/ csv.pc # "idle" \/ main.pc = "LoadArticlesFromCSV") =>
          /\ db = "open"
          /\ main.initErr = "nil"
          /\ main.countErr = "nil"
          /\ main.count = 0
          /\ main.backup # ""
    /\ runs > 0 => (csv.pc = "idle" /\ ~dbMutex /\ main.pc # "LoadArticlesFromCSV")
    /\ main.pc = "ListenAndServe" => (runs > 0 /\ runPc[1] = "returned")
    /\ main.initErr \notin { "none", "nil" } =>
          (main.pc = "exited" /\ loads = 0 /\ runs = 0)
    /\ main.pc = "exited" => main.initErr \notin { "none", "nil" }

\* the restore loaded the backup into the empty store, the writer of the
\* first run passed an article to InsertArticle, and the server serves
C22_ServingAfterRestoreAndFirstRun ==
    /\ main.pc = "ListenAndServe"
    /\ loads = 1
    /\ csvErr = "nil"
    /\ Len(articles) = 2
    /\ inserted[1] # <<>>

(***************************************************************************)
(* Properties of the channel between the workers and the writer.           *)
(***************************************************************************)
\* the articles run r's writer holds or can still receive, in order
InFlight(r) ==
    (IF writer[r].pc = "insert" THEN writer[r].article ELSE <<>>) \o articleChan[r]

\* the most items a feed has
LongestFeed ==
    LET lengths == { Len(feed.items) :
                       feed \in UNION { FeedsOf(RssSources[i]) : i \in 1..Len(RssSources) } }
    IN  CHOOSE n \in lengths : \A m \in lengths : m <= n

\* C23: the articles sent on a run's channel are the ones its writer passed
\* to InsertArticle followed by the ones in flight, each once and in the
\* order sent, and with fair writers the k-th article sent is eventually the
\* k-th passed to InsertArticle, also when the channel was closed meanwhile.
C23_SentArticlesReachInsertOnce ==
    /\ [](\A r \in Runs : sent[r] = inserted[r] \o InFlight(r))
    /\ \A r \in Runs : \A k \in 1..(NumSources * LongestFeed) :
          (Len(sent[r]) >= k) ~> (Len(inserted[r]) >= k /\ inserted[r][k] = sent[r][k])

\* the channel of a run is closed with an article still queued, after the
\* writer passed an earlier one to InsertArticle
C23_ClosedWithArticleQueued ==
    \E r \in Runs :
        /\ closed[r]
        /\ articleChan[r] # <<>>
        /\ inserted[r] # <<>>

\* worker w of run r is at the send of an article and the channel is full
BlockedOnSend(r, w) ==
    /\ worker[r][w].pc = "loop"
    /\ Accepted(worker[r][w].feed.items[worker[r][w].idx])
    /\ Len(articleChan[r]) >= ChanCap

\* the run is over: every worker has finished, the channel is closed and
\* the writer has left its loop
Terminated(r) ==
    /\ \A w \in Workers : worker[r][w].pc = "done"
    /\ closed[r]
    /\ writer[r].pc = "exit"

\* C24: the channel never holds more articles than its capacity, a worker
\* at a send on a full channel stays there until the channel has room, and
\* when every fetch returns and the goroutines are scheduled fairly, every
\* run that started terminates, also when it sends more articles than the
\* channel holds.
C24_BoundedQueueAndTermination ==
    /\ [](\A r \in Runs : Len(articleChan[r]) <= ChanCap)
    /\ [][\A r \in Runs, w \in Workers :
             BlockedOnSend(r, w) => worker'[r][w] = worker[r][w]]_vars
    /\ \A r \in Runs : (runPc[r] = "wait") ~> Terminated(r)

\* a run has terminated after it sent more articles than the channel holds
C24_TerminatedAfterFullChannel ==
    \E r \in Runs : Terminated(r) /\ Len(sent[r]) > ChanCap /\ inserted[r] = sent[r]

(***************************************************************************)
(* Properties of dbMutex.                                                  *)
(***************************************************************************)
\* the runs whose writer is in a call of InsertArticle
WritersInInsert == { r \in Runs : writer[r].pc = "insert" }

\* C25: while a call of LoadArticlesFromCSV holds dbMutex, no pipeline
\* writer is in a call of InsertArticle.
C25_LoadExcludesPipelineInsert ==
    dbMutex => WritersInInsert = {}

(***************************************************************************)
(* Properties of the configured sources.                                   *)
(***************************************************************************)
\* the group RssSources lists its i-th source under: seven sources under
\* "Cybersecurity News", fifteen under "Tech News", five under "Defense News"
ConfiguredGroup(i) ==
    IF i <= Cardinality(cybersecuritySources) THEN "Cybersecurity"
    ELSE IF i <= Len(RssSources) - Cardinality(defenseSources) THEN "Tech"
    ELSE "Defense"

\* C26: getCategoryForSource gives every source of RssSources the category
\* of the group it is configured under, and so none of them "General".
C26_ConfiguredSourcesClassifiedByGroup ==
    reply.op = "getCategoryForSource" =>
        \A i \in 1..Len(RssSources) :
            reply.sourceURL = RssSources[i] => reply.category = ConfiguredGroup(i)

(***************************************************************************)
(* Properties of close(articleChan).                                       *)
(***************************************************************************)
\* C27: the channel of a run is closed only when every worker of the run
\* has returned, the ones whose fetch failed included; it is closed once,
\* by the invocation that then returns, and stays closed; nothing is sent on
\* it afterwards.
C27_CloseAfterAllWorkersReturned ==
    [][\A r \in Runs :
          /\ (closed'[r] /\ ~closed[r]) =>
                /\ \A w \in Workers : worker[r][w].pc = "done"
                /\ runPc[r] = "wait" /\ runPc'[r] = "returned"
          /\ closed[r] =>
                /\ closed'[r]
                /\ sent'[r] = sent[r]
                /\ \A w \in Workers : worker'[r][w].pc = "done"]_vars

\* a run's channel is closed after one worker failed its fetch and another
\* sent an article
C27_ClosedAfterFailedAndSendingWorkers ==
    \E r \in Runs :
        /\ closed[r]
        /\ \E w \in Workers : worker[r][w].failed
        /\ sent[r] # <<>>

(***************************************************************************)
(* Properties of the generic keyword table.                                *)
(***************************************************************************)
ScoredCategories == { "Cybersecurity", "Tech" }

\* the keywords of the generic table that occur in the article's content
GenericMatches(article) ==
    { k \in DefaultKeywords :
        Contains(ToLower(article.title \o " " \o article.description), k[1]) }

\* C28: an article of a category other than Cybersecurity and Tech is ranked
\* by the generic table, one point per keyword found, so between 0 and 3; a
\* stored pipeline article of such a category has such a rank, is not
\* counted in the high bucket of GetTodayThreatScore, and the level is
\* "Code Red" only with an article of category Cybersecurity or Tech.
C28_GenericTableRanksAtMostThree ==
    /\ (reply.op = "calculateRank" /\ reply.article.category \notin ScoredCategories) =>
          /\ reply.rank = Cardinality(GenericMatches(reply.article))
          /\ reply.rank \in 0..Cardinality(DefaultKeywords)
    /\ \A i \in 1..Len(articles) :
          articles[i].category \notin ScoredCategories =>
              articles[i].rank \in 0..Cardinality(DefaultKeywords)
    /\ reply.op = "GetTodayThreatScore" =>
          /\ reply.score.highRankCount <=
                Cardinality({ i \in 1..Len(articles) :
                                articles[i].category \in ScoredCategories })
          /\ reply.score.threatLevel = "Code Red" =>
                \E i \in 1..Len(articles) : articles[i].category \in ScoredCategories

\* the score over a Defense and a General article, one of them with all
\* three generic keywords and the keywords of the Cybersecurity table too
C28_DefenseAndGeneralScored ==
    /\ reply.op = "GetTodayThreatScore"
    /\ reply.score.totalArticles = 2
    /\ { articles[i].category : i \in 1..Len(articles) } = { "Defense", "General" }
    /\ \E i \in 1..Len(articles) :
          /\ articles[i].rank = Cardinality(DefaultKeywords)
          /\ Contains(ToLower(articles[i].title), "zero-day")
    /\ reply.score.threatLevel = "Attention"
====
